---------------------------- MODULE Spec2Model ----------------------------
(***************************************************************************)
(* Verification model of the analytical core of the Gann-wheel stock        *)
(* analysis system: GannWheel (src/src/analysis/gann/gann_wheel.py),        *)
(* VolumePriceAnalyzer (src/src/analysis/volume_price/                      *)
(* volume_price_analyzer.py) and PricePredictionAnalyzer                    *)
(* (src/price_prediction_analyzer.py).                                      *)
(*                                                                         *)
(* Conventions.  A DataFrame is [columns |-> set of names, rows |-> Seq],   *)
(* each row a function from "date" and the column names to integers; a      *)
(* Python dict is a function with a string domain, so DOMAIN d are its      *)
(* keys and << >> is the empty dict {}.  Python positions are 0-based and   *)
(* are kept so: Iloc(s, k) reads position k.  Fractions (means, ratios,     *)
(* strengths) are exact rationals <<numerator, denominator>> in lowest      *)
(* terms with a positive denominator; a zero denominator is what numpy      *)
(* gives for a division by zero: <<1, 0>> and <<-1, 0>> are inf and -inf,   *)
(* <<0, 0>> is NaN.  Dates are day numbers.                                 *)
(***************************************************************************)
EXTENDS Integers, Sequences, FiniteSets, TLC

VARIABLES
    pc,               \* position of the session: which operation ran last
    bars,             \* the caller's bar table (the DataFrame handed in)
    now,              \* the wall clock read by datetime.now()
    self,             \* attributes of the analyzer objects, per engine
    analysis_result,  \* what the last analyze_stock call returned, or None
    raised,           \* the exception the last call raised, or "none"
    stages_run,       \* the sub-analyses the last call entered, in order
    history,          \* the results of the calls that returned, in order
    args,             \* arguments of the pure operation under check
    ret               \* its return value

vars == <<pc, bars, now, self, analysis_result, raised, stages_run, history, args, ret>>

None == [NoneType |-> TRUE]
IsNone(x) == DOMAIN x = {"NoneType"}
NaN == <<0, 0>>

-----------------------------------------------------------------------------
(* Scalars and exact rationals *)

Abs(x) == IF x < 0 THEN -x ELSE x
Min2(a, b) == IF b < a THEN b ELSE a
Max2(a, b) == IF b > a THEN b ELSE a

RECURSIVE Gcd(_, _)
Gcd(a, b) == IF b = 0 THEN a ELSE Gcd(b, a % b)

Rat(n, d) ==
    LET s == IF d < 0 THEN -1 ELSE 1
        g == Gcd(Abs(n), Abs(d))
    IN  IF d = 0 THEN (IF n = 0 THEN <<0, 0>> ELSE IF n < 0 THEN <<-1, 0>> ELSE <<1, 0>>)
        ELSE IF n = 0 THEN <<0, 1>> ELSE <<(s * n) \div g, (s * d) \div g>>
RatInt(n) == <<n, 1>>
RatAdd(a, b) == Rat(a[1] * b[2] + b[1] * a[2], a[2] * b[2])
RatSub(a, b) == Rat(a[1] * b[2] - b[1] * a[2], a[2] * b[2])
RatMul(a, b) == Rat(a[1] * b[1], a[2] * b[2])
RatDiv(a, b) == Rat(a[1] * b[2], a[2] * b[1])
RatAbs(a) == <<Abs(a[1]), a[2]>>
RatLt(a, b) == a[1] * b[2] < b[1] * a[2]
RatLe(a, b) == a[1] * b[2] <= b[1] * a[2]
RatMin(a, b) == IF RatLt(b, a) THEN b ELSE a
RatMax(a, b) == IF RatLt(a, b) THEN b ELSE a

RECURSIVE RatSum(_)
RatSum(s) == IF s = << >> THEN <<0, 1>> ELSE RatAdd(Head(s), RatSum(Tail(s)))

-----------------------------------------------------------------------------
(* Python containers *)

Iloc(s, k) == IF k >= 0 THEN s[k + 1] ELSE s[Len(s) + k + 1]

(* name = value, then the statements of Rest: a local name bound once *)
Bind(value, Rest(_)) == Rest(value)

(* [Item(i) for i in range(a, b) if Keep(i)] *)
ListOf(a, b, Keep(_), Item(_)) ==
    LET kept == SelectSeq([k \in 1..(b - a) |-> a + k - 1], Keep)
    IN  [k \in 1..Len(kept) |-> Item(kept[k])]
Range(a, b) == {i \in a..(b - 1) : TRUE}
Get(d, k, default) == IF k \in DOMAIN d THEN d[k] ELSE default

Len0(data) == Len(data.rows)
Col(data, c, k) == Iloc(data.rows, k)[c]
IndexAt(data, k) == Iloc(data.rows, k)["date"]


-----------------------------------------------------------------------------
(* Values the variables hold while a specification does not use them *)

NoTable == [columns |-> {}, rows |-> << >>]
NoSelf == << >>

RequiredColumns == {"Open", "High", "Low", "Close", "Volume"}

-----------------------------------------------------------------------------
(* PivotFinder: GannWheel._find_pivot_points and                          *)
(* VolumePriceAnalyzer._find_price_extremes                               *)

(* all(s.iloc[i] >= s.iloc[i-j] for j in range(1, window+1)) and          *)
(* all(s.iloc[i] >= s.iloc[i+j] for j in range(1, window+1))              *)
IsLocalHigh_strict(data, c, i, window) ==
    /\ \A j \in Range(1, window + 1) : Col(data, c, i) > Col(data, c, i - j)
    /\ \A j \in Range(1, window + 1) : Col(data, c, i) > Col(data, c, i + j)

IsLocalHigh(data, c, i, window) ==
    /\ \A j \in Range(1, window + 1) : Col(data, c, i) >= Col(data, c, i - j)
    /\ \A j \in Range(1, window + 1) : Col(data, c, i) >= Col(data, c, i + j)

IsLocalLow(data, c, i, window) ==
    /\ \A j \in Range(1, window + 1) : Col(data, c, i) <= Col(data, c, i - j)
    /\ \A j \in Range(1, window + 1) : Col(data, c, i) <= Col(data, c, i + j)

(* for i in range(window, len(data) - window): append the highs and lows *)
_find_pivot_points(data, window) ==
    [highs |-> ListOf(window, Len0(data) - window,
                      LAMBDA i : IsLocalHigh(data, "High", i, window),
                      LAMBDA i : [date |-> IndexAt(data, i), price |-> Col(data, "High", i),
                                  type |-> "high", index |-> i]),
     lows  |-> ListOf(window, Len0(data) - window,
                      LAMBDA i : IsLocalLow(data, "Low", i, window),
                      LAMBDA i : [date |-> IndexAt(data, i), price |-> Col(data, "Low", i),
                                  type |-> "low", index |-> i])]

_find_price_extremes(data, extreme_type, window) ==
    IF extreme_type = "high"
    THEN ListOf(window, Len0(data) - window,
                LAMBDA i : IsLocalHigh(data, "High", i, window),
                LAMBDA i : [date |-> IndexAt(data, i), price |-> Col(data, "High", i),
                            volume |-> Col(data, "Volume", i), type |-> "high",
                            index |-> i])
    ELSE ListOf(window, Len0(data) - window,
                LAMBDA i : IsLocalLow(data, "Low", i, window),
                LAMBDA i : [date |-> IndexAt(data, i), price |-> Col(data, "Low", i),
                            volume |-> Col(data, "Volume", i), type |-> "low",
                            index |-> i])

PivotWindow == 5

-----------------------------------------------------------------------------
(* Specification SpecPivot: the two pivot finders applied to every short   *)
(* series, with the look-around window as an input.                        *)

MaxBars == 6
MaxPrice == 3
MaxWindow == 2

(* a bar of the pivot series: High and Low given, the rest filled in so    *)
(* that Low <= Open, Close <= High and Volume >= 0                         *)
PivotBar(d, high, low) ==
    [date |-> d, Open |-> low, High |-> high, Low |-> low, Close |-> high, Volume |-> 1]

PivotSeries(shape, x) ==
    [columns |-> RequiredColumns,
     rows |-> [i \in 1..Len(x) |->
                 CASE shape = "peaks"   -> PivotBar(i - 1, x[i] + 1, 1)
                   [] shape = "troughs" -> PivotBar(i - 1, MaxPrice + 1, x[i])
                   [] OTHER             -> PivotBar(i - 1, x[i] + MaxPrice, x[i])]]

InitPivot ==
    /\ pc = "ready"
    /\ \E n \in 0..MaxBars : \E x \in [1..n -> 1..MaxPrice] :
         \E shape \in {"peaks", "troughs", "parallel"} : bars = PivotSeries(shape, x)
    /\ args \in [window : 1..MaxWindow]
    /\ ret = None
    /\ now = 0 /\ self = NoSelf /\ analysis_result = None /\ raised = "none"
    /\ stages_run = << >> /\ history = << >>

PivotFrame == UNCHANGED <<bars, now, self, analysis_result, raised, stages_run, history, args>>

FindPivotPoints ==
    /\ pc = "ready"
    /\ ret' = [op |-> "_find_pivot_points"] @@ _find_pivot_points(bars, args.window)
    /\ pc' = "done"
    /\ PivotFrame

FindPriceExtremes ==
    /\ pc = "ready"
    /\ \E extreme_type \in {"high", "low"} :
         ret' = [op |-> "_find_price_extremes", extreme_type |-> extreme_type,
                 extremes |-> _find_price_extremes(bars, extreme_type, args.window)]
    /\ pc' = "done"
    /\ PivotFrame

NextPivot == FindPivotPoints \/ FindPriceExtremes

SpecPivot == InitPivot /\ [][NextPivot]_vars

(* what the claim says a pivot is *)
HighPivotIndexes(data, w) ==
    {i \in 0..(Len0(data) - 1) :
        /\ w <= i /\ i < Len0(data) - w
        /\ \A j \in 0..(Len0(data) - 1) :
             (0 < Abs(i - j) /\ Abs(i - j) <= w) => Col(data, "High", i) >= Col(data, "High", j)}

LowPivotIndexes(data, w) ==
    {i \in 0..(Len0(data) - 1) :
        /\ w <= i /\ i < Len0(data) - w
        /\ \A j \in 0..(Len0(data) - 1) :
             (0 < Abs(i - j) /\ Abs(i - j) <= w) => Col(data, "Low", i) <= Col(data, "Low", j)}

(* the pivots found are exactly the bars at idx, in increasing order, each *)
(* carrying the bar's own date and price                                   *)
ReportsExactly(found, idx, data, c) ==
    /\ {found[k].index : k \in 1..Len(found)} = idx
    /\ \A k \in 1..Len(found) :
         /\ k > 1 => found[k - 1].index < found[k].index
         /\ found[k].price = Col(data, c, found[k].index)
         /\ found[k].date = IndexAt(data, found[k].index)

(* High rises strictly up to position p and falls strictly after it *)
RisesThenFalls(data, p) ==
    /\ \A i \in 0..(Len0(data) - 2) :
         IF i < p THEN Col(data, "High", i) < Col(data, "High", i + 1)
                  ELSE Col(data, "High", i) > Col(data, "High", i + 1)

FoundHighs == IF ret.op = "_find_pivot_points" THEN ret.highs ELSE ret.extremes

(* C9: a bar is reported as a high (low) pivot exactly when it lies at     *)
(* least `window` bars from both ends and its High (Low) is >= (<=) every  *)
(* High (Low) within `window` bars on either side; hence a series rising   *)
(* strictly to one peak and falling strictly after it has exactly one high *)
(* pivot, at the peak, when the peak is `window` bars from both ends.      *)
C9_PivotsExact ==
    pc = "done" =>
      /\ ret.op = "_find_pivot_points" =>
           /\ ReportsExactly(ret.highs, HighPivotIndexes(bars, args.window), bars, "High")
           /\ ReportsExactly(ret.lows, LowPivotIndexes(bars, args.window), bars, "Low")
      /\ (ret.op = "_find_price_extremes" /\ ret.extreme_type = "high") =>
           ReportsExactly(ret.extremes, HighPivotIndexes(bars, args.window), bars, "High")
      /\ (ret.op = "_find_price_extremes" /\ ret.extreme_type = "low") =>
           ReportsExactly(ret.extremes, LowPivotIndexes(bars, args.window), bars, "Low")
      /\ (ret.op = "_find_pivot_points" \/ ret.extreme_type = "high") =>
           \A p \in 0..(Len0(bars) - 1) :
              (RisesThenFalls(bars, p) /\ args.window <= p /\ p < Len0(bars) - args.window)
                 => (Len(FoundHighs) = 1 /\ FoundHighs[1].index = p)

(* a strict rise to a peak two bars from both ends and a strict fall after *)
(* it, searched with window 2: the peak is the one high pivot found        *)
C9_Witness ==
    /\ pc = "done" /\ ret.op = "_find_price_extremes" /\ ret.extreme_type = "high"
    /\ args.window = 2 /\ Len0(bars) = 5 /\ RisesThenFalls(bars, 2)
    /\ Len(ret.extremes) = 1 /\ ret.extremes[1].index = 2


-----------------------------------------------------------------------------
(* LevelClusterer: GannWheel._merge_similar_levels / _merge_level_group    *)

(* config.get('tolerance', 0.02) *)
Tolerance == <<1, 50>>

RECURSIVE InsertByPrice(_, _)
InsertByPrice(x, s) ==
    IF s = << >> THEN <<x>>
    ELSE IF RatLt(x.price, Head(s).price) THEN <<x>> \o s
         ELSE <<Head(s)>> \o InsertByPrice(x, Tail(s))

(* sorted(levels, key=lambda x: x['price']): stable *)
RECURSIVE SortedByPrice(_)
SortedByPrice(levels) ==
    IF levels = << >> THEN << >>
    ELSE InsertByPrice(levels[Len(levels)],
                       SortedByPrice(SubSeq(levels, 1, Len(levels) - 1)))

_merge_level_group_inverted(group) ==
    LET types == {group[k].type : k \in 1..Len(group)}
    IN  [price |-> RatDiv(RatSum([k \in 1..Len(group) |-> group[k].price]), RatInt(Len(group))),
         type |-> IF Cardinality(types) > 1 THEN (CHOOSE t \in types : TRUE) ELSE "combined",
         strength |-> RatDiv(RatSum([k \in 1..Len(group) |-> group[k].strength]),
                             RatInt(Len(group))),
         count |-> Len(group),
         original_types |-> types]

_merge_level_group(group) ==
    LET types == {group[k].type : k \in 1..Len(group)}
    IN  [price |-> RatDiv(RatSum([k \in 1..Len(group) |-> group[k].price]), RatInt(Len(group))),
         type |-> IF Cardinality(types) = 1 THEN (CHOOSE t \in types : TRUE) ELSE "combined",
         strength |-> RatDiv(RatSum([k \in 1..Len(group) |-> group[k].strength]),
                             RatInt(Len(group))),
         count |-> Len(group),
         original_types |-> types]

PriceNear_inclusive(current_level, last_in_group, tolerance) ==
    RatLe(RatDiv(RatAbs(RatSub(current_level.price, last_in_group.price)),
                 last_in_group.price), tolerance)

(* abs(current_level['price'] - last_in_group['price']) / last_in_group['price'] < tolerance *)
PriceNear(current_level, last_in_group, tolerance) ==
    RatLt(RatDiv(RatAbs(RatSub(current_level.price, last_in_group.price)),
                 last_in_group.price), tolerance)

(* the loop `for i in range(1, len(sorted_levels))` from position i on, with *)
(* the group that is open and the levels merged so far                     *)
RECURSIVE MergeFrom(_, _, _, _, _)
MergeFrom(sorted_levels, i, current_group, merged_levels, tolerance) ==
    IF i >= Len(sorted_levels)
    THEN IF current_group # << >>
         THEN Append(merged_levels, _merge_level_group(current_group))
         ELSE merged_levels
    ELSE LET current_level == Iloc(sorted_levels, i)
             last_in_group == current_group[Len(current_group)]
         IN  IF PriceNear(current_level, last_in_group, tolerance)
             THEN MergeFrom(sorted_levels, i + 1, Append(current_group, current_level),
                            merged_levels, tolerance)
             ELSE MergeFrom(sorted_levels, i + 1, <<current_level>>,
                            Append(merged_levels, _merge_level_group(current_group)),
                            tolerance)

_merge_similar_levels(levels, tolerance) ==
    IF levels = << >> THEN << >>
    ELSE LET sorted_levels == SortedByPrice(levels)
         IN  MergeFrom(sorted_levels, 1, <<sorted_levels[1]>>, << >>, tolerance)

-----------------------------------------------------------------------------
(* Specification SpecMerge: _merge_similar_levels applied to every short   *)
(* level list, and then once more to its own output.                       *)

MaxLevels == 3

LevelPrices == {100, 101, 102, 104}
LevelStrengths == {<<1, 2>>, <<1, 1>>}
LevelTypes == {"pivot_high", "gann_square"}

LevelSet ==
    {[price |-> RatInt(p), type |-> t, strength |-> st] :
        p \in LevelPrices, t \in LevelTypes, st \in LevelStrengths}

InitMerge ==
    /\ pc = "ready"
    /\ \E n \in 0..MaxLevels : \E levels \in [1..n -> LevelSet] : args = [levels |-> levels]
    /\ ret = None
    /\ bars = NoTable /\ now = 0 /\ self = NoSelf /\ analysis_result = None
    /\ raised = "none" /\ stages_run = << >> /\ history = << >>

MergeFrame == UNCHANGED <<bars, now, self, analysis_result, raised, stages_run, history, args>>

MergeSimilarLevels ==
    /\ pc = "ready"
    /\ ret' = [merged |-> _merge_similar_levels(args.levels, Tolerance)]
    /\ pc' = "merged"
    /\ MergeFrame

MergeAgain ==
    /\ pc = "merged"
    /\ ret' = [merged |-> ret.merged,
               again |-> _merge_similar_levels(ret.merged, Tolerance)]
    /\ pc' = "done"
    /\ MergeFrame

NextMerge == MergeSimilarLevels \/ MergeAgain

SpecMerge == InitMerge /\ [][NextMerge]_vars

(* price, strength and type of each level, in list order *)
LevelCore(levels) ==
    [k \in 1..Len(levels) |->
        [price |-> levels[k].price, strength |-> levels[k].strength, type |-> levels[k].type]]

(* no two levels of the list lie within the tolerance fraction (of the     *)
(* lower price) of each other                                              *)
Separated(levels) ==
    \A i, j \in 1..Len(levels) :
        (i # j /\ RatLe(levels[i].price, levels[j].price))
            => ~ PriceNear(levels[j], levels[i], Tolerance)

AscendingByPrice(levels) ==
    \A i \in 1..(Len(levels) - 1) : RatLe(levels[i].price, levels[i + 1].price)

(* C10 as stated: merging any list in which no two prices are within the   *)
(* tolerance returns the same list: same length, same order, same price,   *)
(* strength and type.                                                      *)
C10_AnySeparatedListUnchanged ==
    (pc # "ready" /\ Separated(args.levels)) => LevelCore(ret.merged) = LevelCore(args.levels)

(* C10 amended: merging a list that is in ascending price order and in     *)
(* which no two prices are within the tolerance returns it unchanged       *)
(* (price, strength, type, order), and merging the output of a merge again *)
(* returns that output unchanged.                                          *)
C10_MergeIdempotent ==
    /\ (pc # "ready" /\ Separated(args.levels) /\ AscendingByPrice(args.levels))
          => LevelCore(ret.merged) = LevelCore(args.levels)
    /\ pc = "done" => LevelCore(ret.again) = LevelCore(ret.merged)

(* a merge that really merged something (fewer levels out than in, one of  *)
(* them combined from two types) was merged again and came back unchanged  *)
C10_Witness ==
    /\ pc = "done"
    /\ Len(ret.merged) >= 2 /\ Len(ret.merged) < Len(args.levels)
    /\ \E k \in 1..Len(ret.merged) : ret.merged[k].type = "combined"
    /\ LevelCore(ret.again) = LevelCore(ret.merged)


-----------------------------------------------------------------------------
(* pandas on a bar table.  A value that pandas leaves undefined is NaN;    *)
(* every comparison with NaN is false.  Series that no later stage reads   *)
(* are kept as the token Series: the dictionary key is there, its numbers  *)
(* are not.                                                                *)

Series == "Series"

IsNaN(x) == x = NaN
Lt(a, b) == ~IsNaN(a) /\ ~IsNaN(b) /\ RatLt(a, b)
Gt(a, b) == Lt(b, a)
Le(a, b) == ~IsNaN(a) /\ ~IsNaN(b) /\ RatLe(a, b)
Ge(a, b) == Le(b, a)

(* data[c].iloc[a:b+1].sum(), summed by halves *)
RECURSIVE SumCol(_, _, _, _)
SumCol(data, c, a, b) ==
    IF a > b THEN 0
    ELSE IF a = b THEN Col(data, c, a)
    ELSE SumCol(data, c, a, (a + b) \div 2) + SumCol(data, c, (a + b) \div 2 + 1, b)

(* data[c].rolling(period).mean().iloc[i] *)
RollingMean(data, c, period, i) ==
    IF i + 1 < period THEN NaN ELSE Rat(SumCol(data, c, i - period + 1, i), period)

(* data[c].iloc[a:b+1].mean() *)
MeanCol(data, c, a, b) == IF a > b THEN NaN ELSE Rat(SumCol(data, c, a, b), b - a + 1)

(* data[c].pct_change(fill_method=None).iloc[i] *)
PctChange(data, c, i) ==
    IF i = 0 THEN NaN ELSE Rat(Col(data, c, i) - Col(data, c, i - 1), Col(data, c, i - 1))

IsEmpty_never(data) == FALSE

(* data.empty: no rows, or no columns *)
IsEmpty(data) == data.rows = << >> \/ data.columns = {}

RECURSIVE InsertByDate(_, _)
InsertByDate(x, s) ==
    IF s = << >> THEN <<x>>
    ELSE IF x["date"] < Head(s)["date"] THEN <<x>> \o s
         ELSE <<Head(s)>> \o InsertByDate(x, Tail(s))

RECURSIVE InsertionSortByDate(_)
InsertionSortByDate(s) ==
    IF s = << >> THEN << >>
    ELSE InsertByDate(s[Len(s)], InsertionSortByDate(SubSeq(s, 1, Len(s) - 1)))

(* list.sort(key=lambda x: x['date']) and DataFrame.sort_index(): stable,  *)
(* so a list already in date order comes back as it is                     *)
SortedByDate(s) ==
    IF \A i \in 1..(Len(s) - 1) : s[i]["date"] <= s[i + 1]["date"] THEN s
    ELSE InsertionSortByDate(s)

sort_index(data) == [columns |-> data.columns, rows |-> SortedByDate(data.rows)]

-----------------------------------------------------------------------------
(* VolumePriceAnalyzer: divergence analysis *)

(* config.get('divergence_threshold', 0.15) *)
divergence_threshold == <<3, 20>>

DivergenceRecord_of_current(kind, current, previous) ==
    [date |-> current.date, type |-> kind,
     price |-> current.price, volume |-> current.volume,
     previous_price |-> previous.price, previous_volume |-> previous.volume,
     price_change_pct |-> Rat(current.price - previous.price, previous.price),
     volume_change_pct |-> Rat(current.volume - previous.volume, previous.volume),
     strength |-> RatAbs(Rat(current.volume - previous.volume, current.volume))]

DivergenceRecord(kind, current, previous) ==
    [date |-> current.date, type |-> kind,
     price |-> current.price, volume |-> current.volume,
     previous_price |-> previous.price, previous_volume |-> previous.volume,
     price_change_pct |-> Rat(current.price - previous.price, previous.price),
     volume_change_pct |-> Rat(current.volume - previous.volume, previous.volume),
     strength |-> RatAbs(Rat(current.volume - previous.volume, previous.volume))]

(* the largest power of two that is at most n (n >= 1) *)
Pow2Floor(n) == CHOOSE p \in {2 ^ k : k \in 0..30} : p <= n /\ n < 2 * p

(* volume * (1 - 0.15) in binary64, volume an integer: 1 - 0.15 is the     *)
(* double 0.85 - 0.2 * 2^-53; the product is off 0.85 * volume by less     *)
(* than half a unit in the last place, so when 0.85 * volume is an integer *)
(* the product is that integer, and otherwise it lies on the same side of  *)
(* every integer as 0.85 * volume.  A comparison of an integer with the    *)
(* product is the comparison with the exact value.                         *)
LowerVolumeLimit(volume) == RatMul(RatInt(volume), RatSub(RatInt(1), divergence_threshold))

(* volume * (1 + 0.15) in binary64, volume an integer: 1 + 0.15 is the     *)
(* double 1.15 - 0.4 * 2^-52.  When 1.15 * volume is an integer N the      *)
(* product is N - 0.4 * volume * 2^-52, which rounds to the double below N *)
(* exactly when 0.4 * volume * 2^-52 is more than half a unit in the last  *)
(* place of N, 2^(floor(log2 N) - 53): when 4 * volume > 5 * Pow2Floor(N). *)
(* (100 * (1 + 0.15) is 114.99999999999999, 20 * (1 + 0.15) is 23.0.)      *)
RoundsBelow(volume) ==
    /\ volume > 0
    /\ (volume * 23) % 20 = 0
    /\ 4 * volume > 5 * Pow2Floor((volume * 23) \div 20)

UpperVolumeLimit(volume) == RatMul(RatInt(volume), RatAdd(RatInt(1), divergence_threshold))

(* current_low['volume'] > previous_low['volume'] * (1 + self.divergence_threshold) *)
ExceedsUpperLimit(current_volume, previous_volume) ==
    \/ RatLt(UpperVolumeLimit(previous_volume), RatInt(current_volume))
    \/ /\ UpperVolumeLimit(previous_volume) = RatInt(current_volume)
       /\ RoundsBelow(previous_volume)

IsTopDivergence_inclusive(current_high, previous_high) ==
    /\ current_high.price > previous_high.price
    /\ RatLe(RatInt(current_high.volume), LowerVolumeLimit(previous_high.volume))

IsTopDivergence(current_high, previous_high) ==
    /\ current_high.price > previous_high.price
    /\ RatLt(RatInt(current_high.volume), LowerVolumeLimit(previous_high.volume))

IsBottomDivergence(current_low, previous_low) ==
    /\ current_low.price < previous_low.price
    /\ ExceedsUpperLimit(current_low.volume, previous_low.volume)

(* for i in range(1, len(price_highs)) *)
_detect_top_divergence(price_highs) ==
    ListOf(1, Len(price_highs),
           LAMBDA i : IsTopDivergence(Iloc(price_highs, i), Iloc(price_highs, i - 1)),
           LAMBDA i : DivergenceRecord("top_divergence", Iloc(price_highs, i),
                                       Iloc(price_highs, i - 1)))

(* for i in range(1, len(price_lows)) *)
_detect_bottom_divergence(price_lows) ==
    ListOf(1, Len(price_lows),
           LAMBDA i : IsBottomDivergence(Iloc(price_lows, i), Iloc(price_lows, i - 1)),
           LAMBDA i : DivergenceRecord("bottom_divergence", Iloc(price_lows, i),
                                       Iloc(price_lows, i - 1)))

(* max(recent, key=lambda x: x['date']): the first of the latest *)
LatestByDate(s) ==
    LET k == CHOOSE k \in 1..Len(s) :
                /\ \A j \in 1..Len(s) : s[j]["date"] <= s[k]["date"]
                /\ \A j \in 1..(k - 1) : s[j]["date"] < s[k]["date"]
    IN  s[k]

RecentWindowDays == 30

(* raises IndexError when a divergence exists and the table has fewer than *)
(* 30 rows: data.index[-30] is evaluated once per divergence               *)
Raises_check_current_divergence_status(data, divergences) ==
    divergences # << >> /\ Len0(data) < RecentWindowDays

_check_current_divergence_status(data, divergences) ==
    IF divergences = << >> THEN None
    ELSE LET since == IndexAt(data, -RecentWindowDays)
             InWindow(d) == d["date"] >= since
             recent_divergences == SelectSeq(divergences, InWindow)
         IN  IF recent_divergences # << >>
             THEN LET latest_divergence == LatestByDate(recent_divergences)
                  IN  [has_recent_divergence |-> TRUE,
                       latest_divergence |-> latest_divergence,
                       days_since_divergence |-> IndexAt(data, -1) - latest_divergence["date"]]
             ELSE [has_recent_divergence |-> FALSE]

RECURSIVE RatMaxOf(_)
RatMaxOf(s) == IF Len(s) = 1 THEN s[1] ELSE RatMax(s[1], RatMaxOf(Tail(s)))

RECURSIVE RatMinOf(_)
RatMinOf(s) == IF Len(s) = 1 THEN s[1] ELSE RatMin(s[1], RatMinOf(Tail(s)))

IsTop(d) == d.type = "top_divergence"
IsBottom(d) == d.type = "bottom_divergence"

_evaluate_divergence_strength(divergences) ==
    IF divergences = << >>
    THEN [avg_strength |-> <<0, 1>>, max_strength |-> <<0, 1>>, divergence_frequency |-> 0]
    ELSE LET strengths == [k \in 1..Len(divergences) |-> divergences[k].strength]
         IN  [avg_strength |-> RatDiv(RatSum(strengths), RatInt(Len(strengths))),
              max_strength |-> RatMaxOf(strengths),
              min_strength |-> RatMinOf(strengths),
              divergence_frequency |-> Len(divergences),
              top_divergence_count |-> Len(SelectSeq(divergences, IsTop)),
              bottom_divergence_count |-> Len(SelectSeq(divergences, IsBottom))]

_analyze_divergence(data) ==
    Bind(_detect_top_divergence(_find_price_extremes(data, "high", PivotWindow)),
         LAMBDA top_divergences :
    Bind(_detect_bottom_divergence(_find_price_extremes(data, "low", PivotWindow)),
         LAMBDA bottom_divergences :
    Bind(SortedByDate(top_divergences \o bottom_divergences),
         LAMBDA divergences :
        IF Raises_check_current_divergence_status(data, divergences)
        THEN << >>
        ELSE [divergences |-> divergences,
              top_divergences |-> top_divergences,
              bottom_divergences |-> bottom_divergences,
              current_divergence |-> _check_current_divergence_status(data, divergences),
              divergence_strength |-> _evaluate_divergence_strength(divergences),
              total_divergences |-> Len(divergences)])))


-----------------------------------------------------------------------------
(* VolumePriceAnalyzer: volume patterns *)

RECURSIVE SumSqCol(_, _, _, _)
SumSqCol(data, c, a, b) ==
    IF a > b THEN 0
    ELSE IF a = b THEN Col(data, c, a) * Col(data, c, a)
    ELSE SumSqCol(data, c, a, (a + b) \div 2) + SumSqCol(data, c, (a + b) \div 2 + 1, b)

(* data[c].rolling(period).std().iloc[i] squared (ddof = 1) *)
RollingVar(data, c, period, i) ==
    IF i + 1 < period THEN NaN
    ELSE LET sum == SumCol(data, c, i - period + 1, i)
             sq == SumSqCol(data, c, i - period + 1, i)
         IN  Rat(period * sq - sum * sum, period * (period - 1))

(* value > mean + k * std, decided on the squares (k >= 0) *)
AboveMeanPlusStd(value, mean, var, k) ==
    /\ ~IsNaN(mean) /\ ~IsNaN(var)
    /\ LET d == RatSub(value, mean)
       IN  RatLt(<<0, 1>>, d) /\ RatLt(RatMul(RatMul(k, k), var), RatMul(d, d))

(* value < mean - k * std *)
BelowMeanMinusStd(value, mean, var, k) ==
    /\ ~IsNaN(mean) /\ ~IsNaN(var)
    /\ LET d == RatSub(mean, value)
       IN  RatLt(<<0, 1>>, d) /\ RatLt(RatMul(RatMul(k, k), var), RatMul(d, d))

MaPeriod == 20
StatPeriod == 60

(* for i in range(20, len(data)) *)
_identify_volume_breakout(data) ==
    LET volume_ma(i) == RollingMean(data, "Volume", MaPeriod, i)
        price_ma(i) == RollingMean(data, "Close", MaPeriod, i)
        volume(i) == RatInt(Col(data, "Volume", i))
        close(i) == RatInt(Col(data, "Close", i))
    IN  ListOf(MaPeriod, Len0(data),
               LAMBDA i : /\ Gt(volume(i), RatMul(volume_ma(i), <<2, 1>>))
                          /\ Gt(close(i), RatMul(price_ma(i), <<51, 50>>)),
               LAMBDA i : [start_date |-> IndexAt(data, i), end_date |-> IndexAt(data, i),
                           pattern_type |-> "volume_breakout",
                           volume_ratio |-> RatDiv(volume(i), volume_ma(i)),
                           price_change |-> RatDiv(RatSub(close(i), price_ma(i)),
                                                   price_ma(i)),
                           strength |-> RatMin(RatDiv(RatDiv(volume(i), volume_ma(i)),
                                                      <<2, 1>>),
                                               <<2, 1>>)])

(* low_volume_periods.iloc[i]: Volume < volume_ma * 0.7 *)
IsLowVolume(data, i) ==
    Lt(RatInt(Col(data, "Volume", i)),
       RatMul(RollingMean(data, "Volume", MaPeriod, i), <<7, 10>>))

MinConsolidationDays == 3

ConsolidationRecord(data, start, last) ==
    [start_date |-> IndexAt(data, start), end_date |-> IndexAt(data, last),
     pattern_type |-> "volume_consolidation",
     duration_days |-> IndexAt(data, last) - IndexAt(data, start),
     avg_volume_ratio |->
        RatDiv(MeanCol(data, "Volume", start, last),
               RatDiv(RatSum([k \in 1..(last - start + 1) |->
                                 RollingMean(data, "Volume", MaPeriod, start + k - 1)]),
                      RatInt(last - start + 1))),
     strength |-> <<1, 1>>]

(* where the run of low-volume days that ends at position last began *)
RunStart(data, last) ==
    CHOOSE start \in 0..last :
        /\ \A k \in start..last : IsLowVolume(data, k)
        /\ start = 0 \/ ~IsLowVolume(data, start - 1)

(* the loop over enumerate(low_volume_periods): in_consolidation holds at  *)
(* position i exactly when day i - 1 is a low-volume day, so a run is      *)
(* closed at the first day i after it that is not one, and a run that      *)
(* lasts to the end of the table is never closed                           *)
_identify_volume_consolidation(data) ==
    ListOf(1, Len0(data),
           LAMBDA i : /\ ~IsLowVolume(data, i) /\ IsLowVolume(data, i - 1)
                      /\ IndexAt(data, i - 1) - IndexAt(data, RunStart(data, i - 1))
                             >= MinConsolidationDays,
           LAMBDA i : ConsolidationRecord(data, RunStart(data, i - 1), i - 1))

(* for i in range(60, len(data)) *)
_identify_abnormal_volume_spikes(data) ==
    LET volume_ma(i) == RollingMean(data, "Volume", StatPeriod, i)
        volume_var(i) == RollingVar(data, "Volume", StatPeriod, i)
        volume(i) == RatInt(Col(data, "Volume", i))
    IN  ListOf(StatPeriod, Len0(data),
               LAMBDA i : AboveMeanPlusStd(volume(i), volume_ma(i), volume_var(i), <<3, 1>>),
               LAMBDA i : [start_date |-> IndexAt(data, i), end_date |-> IndexAt(data, i),
                           pattern_type |-> "abnormal_volume_spike",
                           volume |-> Col(data, "Volume", i),
                           avg_volume |-> volume_ma(i),
                           volume_ratio |-> RatDiv(volume(i), volume_ma(i)),
                           price_change |-> PctChange(data, "Close", i),
                           strength |-> RatMin(RatDiv(RatDiv(volume(i), volume_ma(i)),
                                                      <<3, 1>>),
                                               <<3, 1>>)])

RunLength == 5

(* recent_volumes = data['Volume'].iloc[i-4:i+1], never rising *)
NeverRising(data, i) ==
    \A j \in Range(0, RunLength - 1) :
        Col(data, "Volume", i - 4 + j) >= Col(data, "Volume", i - 4 + j + 1)

NeverFalling(data, i) ==
    \A j \in Range(0, RunLength - 1) :
        Col(data, "Volume", i - 4 + j) <= Col(data, "Volume", i - 4 + j + 1)

(* for i in range(5, len(data)) *)
_identify_volume_decline_pattern(data) ==
    LET first(i) == Col(data, "Volume", i - 4)
        last(i) == Col(data, "Volume", i)
        decline_ratio(i) == Rat(first(i) - last(i), first(i))
    IN  ListOf(RunLength, Len0(data),
               LAMBDA i : NeverRising(data, i) /\ RatLt(<<3, 10>>, decline_ratio(i)),
               LAMBDA i : [start_date |-> IndexAt(data, i - 4), end_date |-> IndexAt(data, i),
                           pattern_type |-> "volume_decline",
                           decline_ratio |-> decline_ratio(i),
                           start_volume |-> first(i), end_volume |-> last(i),
                           strength |-> RatMin(decline_ratio(i), <<1, 1>>)])

_identify_volume_increase_pattern(data) ==
    LET first(i) == Col(data, "Volume", i - 4)
        last(i) == Col(data, "Volume", i)
        increase_ratio(i) == Rat(last(i) - first(i), first(i))
    IN  ListOf(RunLength, Len0(data),
               LAMBDA i : NeverFalling(data, i) /\ RatLt(<<1, 2>>, increase_ratio(i)),
               LAMBDA i : [start_date |-> IndexAt(data, i - 4), end_date |-> IndexAt(data, i),
                           pattern_type |-> "volume_increase",
                           increase_ratio |-> increase_ratio(i),
                           start_volume |-> first(i), end_volume |-> last(i),
                           strength |-> RatMin(increase_ratio(i), <<2, 1>>)])

RECURSIVE InsertByStartDate(_, _)
InsertByStartDate(x, s) ==
    IF s = << >> THEN <<x>>
    ELSE IF x.start_date < Head(s).start_date THEN <<x>> \o s
         ELSE <<Head(s)>> \o InsertByStartDate(x, Tail(s))

(* patterns.sort(key=lambda x: x['start_date']) *)
RECURSIVE SortedByStartDate(_)
SortedByStartDate(s) ==
    IF s = << >> THEN << >>
    ELSE InsertByStartDate(s[Len(s)], SortedByStartDate(SubSeq(s, 1, Len(s) - 1)))

_summarize_patterns(patterns) ==
    IF patterns = << >> THEN << >>
    ELSE [total_patterns |-> Len(patterns), pattern_types |-> Series,
          most_common_pattern |-> Series, avg_strength |-> Series]

CurrentWindowDays == 5

_identify_volume_patterns(data) ==
    Bind(SortedByStartDate(_identify_volume_breakout(data)
                           \o _identify_volume_consolidation(data)
                           \o _identify_abnormal_volume_spikes(data)
                           \o _identify_volume_decline_pattern(data)
                           \o _identify_volume_increase_pattern(data)),
         LAMBDA patterns :
        IF patterns # << >> /\ Len0(data) < CurrentWindowDays
        THEN << >>
        ELSE [all_patterns |-> patterns,
              current_patterns |->
                 SelectSeq(patterns,
                           LAMBDA p : p.end_date >= IndexAt(data, -CurrentWindowDays)),
              pattern_summary |-> _summarize_patterns(patterns)])


-----------------------------------------------------------------------------
(* VolumePriceAnalyzer: indicators, relation, coordination, abnormal       *)
(* volume, trend                                                           *)

(* config.get('correlation_window', 20) *)
correlation_window == 20
(* config.get('volume_spike_threshold', 2.0) *)
volume_spike_threshold == <<2, 1>>

_calculate_basic_indicators(data) ==
    LET last == Len0(data) - 1
        volume_ma_20 == RollingMean(data, "Volume", MaPeriod, last)
    IN  [price_change |-> Series, price_volatility |-> Series, volume_change |-> Series,
         volume_ma |-> [ma_5 |-> Series, ma_10 |-> Series, ma_20 |-> Series, ma_60 |-> Series],
         price_ma |-> [ma_5 |-> Series, ma_10 |-> Series, ma_20 |-> Series, ma_60 |-> Series],
         relative_volume |-> Series, volume_ratio |-> Series,
         price_amplitude |-> Series, vwap |-> Series,
         current_status |->
            [current_price |-> Col(data, "Close", -1),
             current_volume |-> Col(data, "Volume", -1),
             avg_volume_20 |-> volume_ma_20,
             relative_volume_current |-> RatDiv(RatInt(Col(data, "Volume", -1)), volume_ma_20),
             price_change_current |-> PctChange(data, "Close", last)]]

(* column c has one value on the bars a .. b *)
ConstantOver(data, c, a, b) == \A i \in a..b : Col(data, c, i) = Col(data, c, a)

(* the last correlation_window changes of Close, or of Volume, are all 0:  *)
(* the variance of the window is 0 and the coefficient is 0 / 0            *)
CorrelationUndefined(data) ==
    \/ Len0(data) < correlation_window + 1
    \/ ConstantOver(data, "Close", Len0(data) - 1 - correlation_window, Len0(data) - 1)
    \/ ConstantOver(data, "Volume", Len0(data) - 1 - correlation_window, Len0(data) - 1)

(* price_change.rolling(correlation_window).corr(volume_change).iloc[-1].   *)
(* The first change is NaN, so fewer than correlation_window + 1 rows give  *)
(* NaN, and so does a window without variance; otherwise it is the Pearson  *)
(* coefficient of the last window, a square-root expression of the bars     *)
(* that is fixed together with them (args.current_correlation).            *)
rolling_correlation_last(data) ==
    IF CorrelationUndefined(data) THEN NaN ELSE args.current_correlation

(* ((price_change > 0) == (volume_change > 0)).astype(int).iloc[i] *)
direction_consistency(data, i) ==
    IF Gt(PctChange(data, "Close", i), <<0, 1>>) = Gt(PctChange(data, "Volume", i), <<0, 1>>)
    THEN 1 ELSE 0

RECURSIVE SumConsistency(_, _, _)
SumConsistency(data, a, b) ==
    IF a > b THEN 0
    ELSE IF a = b THEN direction_consistency(data, a)
    ELSE SumConsistency(data, a, (a + b) \div 2)
         + SumConsistency(data, (a + b) \div 2 + 1, b)

_analyze_volume_price_consistency(data) ==
    LET last == Len0(data) - 1
    IN  [direction_consistency |-> Series, consistency_ratio |-> Series,
         strength_correlation |-> Series,
         current_consistency |->
            IF Len0(data) < MaPeriod THEN NaN
            ELSE Rat(SumConsistency(data, last - MaPeriod + 1, last), MaPeriod)]

_analyze_volume_price_relation(data) ==
    [overall_correlation |-> Series,
     rolling_correlation |-> Series,
     current_correlation |-> rolling_correlation_last(data),
     volume_price_patterns |-> Series,
     strength_analysis |-> [price_strength |-> Series, volume_strength |-> Series,
                            combined_strength |-> Series, current_strength |-> Series],
     consistency_analysis |-> _analyze_volume_price_consistency(data)]

(* the 20-bar window of one of the last 3 bars has a constant Close or a   *)
(* constant Volume: rolling(20).std() is 0 there and the z-score is 0 / 0  *)
CoordinationUndefined(data) ==
    \/ Len0(data) < MaPeriod + 2
    \/ \E i \in (Len0(data) - 3)..(Len0(data) - 1) :
          \/ ConstantOver(data, "Close", i - MaPeriod + 1, i)
          \/ ConstantOver(data, "Volume", i - MaPeriod + 1, i)

(* (price_normalized * volume_normalized).rolling(3).mean().iloc[-1]: the  *)
(* z-scores need 20 rows and the smoothing 3 of them, so fewer than 22 rows *)
(* give NaN, and so does a window without variance; otherwise it is a      *)
(* square-root expression of the bars, fixed together with them            *)
(* (args.coordination_score).                                              *)
coordination_score_last(data) ==
    IF CoordinationUndefined(data) THEN NaN ELSE args.coordination_score

_get_coordination_level(score) ==
    IF Gt(score, <<3, 2>>) THEN "excellent"
    ELSE IF Gt(score, <<1, 2>>) THEN "good"
    ELSE IF Gt(score, <<-1, 2>>) THEN "fair"
    ELSE IF Gt(score, <<-3, 2>>) THEN "poor"
    ELSE "very_poor"

_analyze_price_volume_coordination(data) ==
    [coordination_score |-> Series, coordination_trend |-> Series,
     coordination_levels |-> Series,
     current_coordination |->
        [score |-> coordination_score_last(data), trend |-> Series,
         level |-> _get_coordination_level(coordination_score_last(data))],
     avg_coordination |-> Series]

AbnormalEvent(data, kind, idx) ==
    [date |-> IndexAt(data, idx), type |-> kind,
     volume |-> Col(data, "Volume", idx),
     avg_volume |-> RollingMean(data, "Volume", StatPeriod, idx),
     ratio |-> RatDiv(RatInt(Col(data, "Volume", idx)),
                      RollingMean(data, "Volume", StatPeriod, idx)),
     price_change |-> PctChange(data, "Close", idx)]

(* volume_spikes = Volume > volume_mean + volume_spike_threshold * volume_std *)
IsVolumeSpike(data, i) ==
    AboveMeanPlusStd(RatInt(Col(data, "Volume", i)),
                     RollingMean(data, "Volume", StatPeriod, i),
                     RollingVar(data, "Volume", StatPeriod, i), volume_spike_threshold)

(* volume_drops = Volume < volume_mean - volume_std *)
IsVolumeDrop(data, i) ==
    BelowMeanMinusStd(RatInt(Col(data, "Volume", i)),
                      RollingMean(data, "Volume", StatPeriod, i),
                      RollingVar(data, "Volume", StatPeriod, i), <<1, 1>>)

(* for idx in data[volume_spikes].index / data[volume_drops].index *)
EventsOf(data, kind) ==
    ListOf(0, Len0(data),
           LAMBDA i : \/ (kind = "volume_spike" /\ IsVolumeSpike(data, i))
                      \/ (kind = "volume_drop" /\ IsVolumeDrop(data, i)),
           LAMBDA i : AbnormalEvent(data, kind, i))

IsSpikeEvent(e) == e.type = "volume_spike"
IsDropEvent(e) == e.type = "volume_drop"

_analyze_abnormal_volume(data) ==
    Bind(SortedByDate(EventsOf(data, "volume_spike") \o EventsOf(data, "volume_drop")),
         LAMBDA abnormal_events :
        [abnormal_events |-> abnormal_events,
         recent_events |->
            SelectSeq(abnormal_events,
                      LAMBDA e : e["date"] >= IndexAt(data, -RecentWindowDays)),
         spike_count |-> Len(SelectSeq(abnormal_events, IsSpikeEvent)),
         drop_count |-> Len(SelectSeq(abnormal_events, IsDropEvent)),
         latest_abnormal |-> IF abnormal_events # << >>
                             THEN abnormal_events[Len(abnormal_events)] ELSE None])


(* (Close.iloc[-1] - Close.iloc[-(k+1)]) / Close.iloc[-(k+1)] if len(data) >= k+1 else 0 *)
TrendOver(data, k) ==
    IF Len0(data) >= k + 1
    THEN Rat(Col(data, "Close", -1) - Col(data, "Close", -(k + 1)), Col(data, "Close", -(k + 1)))
    ELSE <<0, 1>>

_calculate_price_trend(data) ==
    Bind(TrendOver(data, 5), LAMBDA short_trend :
        [short_trend |-> short_trend,
         medium_trend |-> TrendOver(data, 20),
         long_trend |-> TrendOver(data, 60),
         short_direction |-> IF Gt(short_trend, <<1, 50>>) THEN "up"
                             ELSE IF Lt(short_trend, <<-1, 50>>) THEN "down"
                             ELSE "sideways",
         trend_strength |-> RatAbs(short_trend)])

_calculate_volume_trend(data) ==
    LET n == Len0(data)
    IN
    Bind(IF n >= 5 THEN MeanCol(data, "Volume", n - 5, n - 1)
         ELSE RatInt(Col(data, "Volume", -1)),
         LAMBDA recent_volume :
    Bind(IF n >= 10 THEN MeanCol(data, "Volume", n - 10, n - 6)
         ELSE IF n > 5 THEN MeanCol(data, "Volume", 0, n - 6)
         ELSE recent_volume,
         LAMBDA previous_volume :
    Bind(IF Gt(previous_volume, <<0, 1>>)
         THEN RatDiv(RatSub(recent_volume, previous_volume), previous_volume)
         ELSE <<0, 1>>,
         LAMBDA volume_trend :
        [volume_trend |-> volume_trend,
         direction |-> IF Gt(volume_trend, <<1, 5>>) THEN "increasing"
                       ELSE IF Lt(volume_trend, <<-1, 5>>) THEN "decreasing"
                       ELSE "stable",
         recent_avg_volume |-> recent_volume,
         previous_avg_volume |-> previous_volume])))

_analyze_trend_consistency(price_trend, volume_trend) ==
    LET price_direction == price_trend.short_direction
        volume_direction == volume_trend.direction
        verdict ==
            IF price_direction = "up" /\ volume_direction = "increasing"
            THEN <<"highly_consistent", <<1, 1>> >>
            ELSE IF price_direction = "down" /\ volume_direction = "decreasing"
            THEN <<"consistent", <<4, 5>> >>
            ELSE IF price_direction = "up" /\ volume_direction = "decreasing"
            THEN <<"divergent", <<1, 5>> >>
            ELSE IF price_direction = "down" /\ volume_direction = "increasing"
            THEN <<"potentially_reversal", <<3, 10>> >>
            ELSE <<"neutral", <<1, 2>> >>
    IN  [consistency |-> verdict[1], score |-> verdict[2],
         price_direction |-> price_direction, volume_direction |-> volume_direction]

_calculate_trend_strength(price_trend, volume_trend) ==
    Bind(RatMul(RatAbs(price_trend.short_trend), <<100, 1>>), LAMBDA price_strength :
    Bind(RatMin(RatAbs(volume_trend.volume_trend), <<1, 1>>), LAMBDA volume_strength :
    Bind(RatAdd(RatMul(price_strength, <<7, 10>>), RatMul(volume_strength, <<3, 10>>)),
         LAMBDA combined_strength :
        [price_strength |-> price_strength, volume_strength |-> volume_strength,
         combined_strength |-> combined_strength,
         strength_level |-> IF Gt(combined_strength, <<3, 1>>) THEN "strong"
                            ELSE IF Gt(combined_strength, <<1, 1>>) THEN "moderate"
                            ELSE "weak"])))

_predict_trend_sustainability(trend_consistency) ==
    LET consistency_score == trend_consistency.score
    IN  IF Gt(consistency_score, <<4, 5>>)
        THEN [sustainability |-> "high", probability |-> <<4, 5>>,
              based_on_consistency |-> consistency_score]
        ELSE IF Gt(consistency_score, <<1, 2>>)
        THEN [sustainability |-> "moderate", probability |-> <<3, 5>>,
              based_on_consistency |-> consistency_score]
        ELSE [sustainability |-> "low", probability |-> <<3, 10>>,
              based_on_consistency |-> consistency_score]

_determine_overall_trend(price_trend, trend_consistency) ==
    LET price_direction == price_trend.short_direction
        consistent == trend_consistency.consistency \in {"highly_consistent", "consistent"}
    IN  IF price_direction = "up" /\ consistent THEN "strong_uptrend"
        ELSE IF price_direction = "up" THEN "weak_uptrend"
        ELSE IF price_direction = "down" /\ consistent THEN "strong_downtrend"
        ELSE IF price_direction = "down" THEN "weak_downtrend"
        ELSE "sideways"

_analyze_volume_price_trend(data) ==
    Bind(_calculate_price_trend(data), LAMBDA price_trend :
    Bind(_calculate_volume_trend(data), LAMBDA volume_trend :
    Bind(_analyze_trend_consistency(price_trend, volume_trend), LAMBDA trend_consistency :
        [price_trend |-> price_trend,
         volume_trend |-> volume_trend,
         trend_consistency |-> trend_consistency,
         trend_strength |-> _calculate_trend_strength(price_trend, volume_trend),
         trend_sustainability |-> _predict_trend_sustainability(trend_consistency),
         overall_trend |-> _determine_overall_trend(price_trend, trend_consistency)])))

-----------------------------------------------------------------------------
(* VolumePriceAnalyzer: comprehensive score *)

(* min(100, max(0, score)): Python's max keeps its first argument when the *)
(* comparison with NaN is false                                            *)
Clamp0To100(score) ==
    LET lower == IF Gt(score, <<0, 1>>) THEN score ELSE <<0, 1>>
    IN  IF Lt(lower, <<100, 1>>) THEN lower ELSE <<100, 1>>

_score_volume_price_relation(relation_data) ==
    IF DOMAIN relation_data = {} THEN <<50, 1>>
    ELSE LET correlation == Get(relation_data, "current_correlation", <<0, 1>>)
             consistency == Get(Get(relation_data, "consistency_analysis", << >>),
                                "current_consistency", <<1, 2>>)
             score == RatAdd(RatMul(RatAbs(correlation), <<50, 1>>),
                             RatMul(consistency, <<50, 1>>))
         IN  Clamp0To100(score)

(* current_divergence.get(...) on the None that                            *)
(* _check_current_divergence_status returns for an empty divergence list   *)
Raises_current_divergence_get(divergence_data) ==
    /\ DOMAIN divergence_data # {}
    /\ IsNone(Get(divergence_data, "current_divergence", << >>))

_score_divergence_risk(divergence_data) ==
    IF DOMAIN divergence_data = {} THEN <<0, 1>>
    ELSE LET current_divergence == Get(divergence_data, "current_divergence", << >>)
         IN  IF Get(current_divergence, "has_recent_divergence", FALSE)
             THEN LET days_since == Get(current_divergence, "days_since_divergence", 30)
                  IN  RatInt(Min2(100, Max2(0, 100 - days_since * 3)))
             ELSE <<20, 1>>

_score_volume_health(abnormal_data) ==
    IF DOMAIN abnormal_data = {} THEN <<70, 1>>
    ELSE LET total_events == Len(Get(abnormal_data, "recent_events", << >>))
         IN  IF total_events = 0 THEN <<90, 1>>
             ELSE IF total_events <= 2 THEN <<70, 1>>
             ELSE IF total_events <= 5 THEN <<50, 1>>
             ELSE <<30, 1>>

_score_coordination(coordination_data) ==
    IF DOMAIN coordination_data = {} THEN <<50, 1>>
    ELSE LET level == Get(Get(coordination_data, "current_coordination", << >>),
                          "level", "fair")
         IN  CASE level = "excellent" -> <<95, 1>>
               [] level = "good"      -> <<80, 1>>
               [] level = "fair"      -> <<60, 1>>
               [] level = "poor"      -> <<40, 1>>
               [] level = "very_poor" -> <<20, 1>>
               [] OTHER               -> <<50, 1>>

_score_trend_consistency(trend_data) ==
    IF DOMAIN trend_data = {} THEN <<50, 1>>
    ELSE RatMul(Get(Get(trend_data, "trend_consistency", << >>), "score", <<1, 2>>),
                <<100, 1>>)

_get_comprehensive_rating(score) ==
    IF Ge(score, <<90, 1>>) THEN "A+"
    ELSE IF Ge(score, <<80, 1>>) THEN "A"
    ELSE IF Ge(score, <<70, 1>>) THEN "B+"
    ELSE IF Ge(score, <<60, 1>>) THEN "B"
    ELSE IF Ge(score, <<50, 1>>) THEN "C+"
    ELSE IF Ge(score, <<40, 1>>) THEN "C"
    ELSE IF Ge(score, <<30, 1>>) THEN "D+"
    ELSE "D"

weights_risk_added ==
    [relation_score |-> <<1, 4>>, divergence_risk_score |-> <<3, 20>>,
     volume_health_score |-> <<1, 5>>, coordination_score |-> <<1, 5>>,
     trend_consistency_score |-> <<1, 5>>]

weights ==
    [relation_score |-> <<1, 4>>, divergence_risk_score |-> <<-3, 20>>,
     volume_health_score |-> <<1, 5>>, coordination_score |-> <<1, 5>>,
     trend_consistency_score |-> <<1, 5>>]

RECURSIVE WeightedSum(_, _)
WeightedSum(scores, keys) ==
    IF keys = {} THEN <<0, 1>>
    ELSE LET key == CHOOSE k \in keys : TRUE
         IN  RatAdd(RatMul(scores[key], weights[key]), WeightedSum(scores, keys \ {key}))

(* the except clause of _calculate_comprehensive_score *)
ScoreFallback_unrated == [comprehensive_score |-> <<50, 1>>]

ScoreFallback == [comprehensive_score |-> <<50, 1>>, rating |-> "C"]

(* max(0, min(100, comprehensive_score)) of finite operands *)
_calculate_comprehensive_score(result) ==
    IF Raises_current_divergence_get(Get(result, "divergence_analysis", << >>))
    THEN ScoreFallback
    ELSE
    Bind([relation_score |->
             _score_volume_price_relation(Get(result, "volume_price_relation", << >>)),
          divergence_risk_score |->
             _score_divergence_risk(Get(result, "divergence_analysis", << >>)),
          volume_health_score |->
             _score_volume_health(Get(result, "abnormal_volume", << >>)),
          coordination_score |->
             _score_coordination(Get(result, "price_volume_coordination", << >>)),
          trend_consistency_score |->
             _score_trend_consistency(Get(result, "trend_analysis", << >>))],
         LAMBDA scores :
    Bind(RatMax(<<0, 1>>, RatMin(<<100, 1>>, WeightedSum(scores, DOMAIN weights))),
         LAMBDA comprehensive_score :
        [individual_scores |-> scores,
         comprehensive_score |-> comprehensive_score,
         rating |-> _get_comprehensive_rating(comprehensive_score),
         weights |-> weights]))


-----------------------------------------------------------------------------
(* VolumePriceAnalyzer: trading signals *)

Signal(date, signal_type, source, strength, confidence) ==
    [date |-> date, signal_type |-> signal_type, source |-> source,
     strength |-> strength, description |-> source, confidence |-> confidence]

_generate_relation_signals(data, relation_data) ==
    IF DOMAIN relation_data = {} THEN << >>
    ELSE LET current_correlation == Get(relation_data, "current_correlation", <<0, 1>>)
             consistency == Get(Get(relation_data, "consistency_analysis", << >>),
                                "current_consistency", <<1, 2>>)
         IN  IF Gt(current_correlation, <<3, 5>>) /\ Gt(consistency, <<7, 10>>)
             THEN <<Signal(IndexAt(data, -1), "buy", "volume_price_relation",
                           RatMin(RatMul(current_correlation, consistency), <<1, 1>>),
                           <<4, 5>>)>>
             ELSE IF Lt(current_correlation, <<-2, 5>>) /\ Lt(consistency, <<3, 10>>)
             THEN <<Signal(IndexAt(data, -1), "sell", "volume_price_relation",
                           RatMin(RatMul(RatAbs(current_correlation),
                                         RatSub(<<1, 1>>, consistency)), <<1, 1>>),
                           <<7, 10>>)>>
             ELSE << >>

MaxSignalAgeDays == 10

(* max(0.5, 1.0 - days_since * 0.05) *)
DivergenceConfidence_slow(days_since) ==
    RatMax(<<1, 2>>, RatSub(<<1, 1>>, RatMul(RatInt(days_since), <<1, 50>>)))

DivergenceConfidence(days_since) ==
    RatMax(<<1, 2>>, RatSub(<<1, 1>>, RatMul(RatInt(days_since), <<1, 20>>)))

_generate_divergence_signals(data, divergence_data) ==
    IF DOMAIN divergence_data = {} THEN << >>
    ELSE LET current_divergence == Get(divergence_data, "current_divergence", << >>)
         IN  IF Get(current_divergence, "has_recent_divergence", FALSE)
             THEN LET latest_divergence == Get(current_divergence, "latest_divergence", << >>)
                      divergence_type == Get(latest_divergence, "type", "")
                      days_since == Get(current_divergence, "days_since_divergence", 30)
                  IN  IF divergence_type = "top_divergence" /\ days_since <= MaxSignalAgeDays
                      THEN <<Signal(IndexAt(data, -1), "sell", "top_divergence",
                                    Get(latest_divergence, "strength", <<1, 2>>),
                                    DivergenceConfidence(days_since))>>
                      ELSE IF divergence_type = "bottom_divergence"
                              /\ days_since <= MaxSignalAgeDays
                      THEN <<Signal(IndexAt(data, -1), "buy", "bottom_divergence",
                                    Get(latest_divergence, "strength", <<1, 2>>),
                                    DivergenceConfidence(days_since))>>
                      ELSE << >>
             ELSE << >>

RECURSIVE PatternSignalsFrom(_, _, _)
PatternSignalsFrom(data, current_patterns, k) ==
    IF k > Len(current_patterns) THEN << >>
    ELSE LET pattern == current_patterns[k]
             pattern_type == Get(pattern, "pattern_type", "")
             strength == Get(pattern, "strength", <<1, 2>>)
             date == Get(pattern, "start_date", IndexAt(data, -1))
             price_change == Get(pattern, "price_change", <<0, 1>>)
         IN  (IF pattern_type = "volume_breakout"
              THEN <<Signal(date, "buy", "volume_breakout", strength, <<4, 5>>)>>
              ELSE IF pattern_type = "abnormal_volume_spike" /\ Gt(price_change, <<3, 100>>)
              THEN <<Signal(date, "buy", "abnormal_volume_with_price_up", strength,
                            <<7, 10>>)>>
              ELSE IF pattern_type = "abnormal_volume_spike" /\ Lt(price_change, <<-3, 100>>)
              THEN <<Signal(date, "sell", "abnormal_volume_with_price_down", strength,
                            <<7, 10>>)>>
              ELSE << >>) \o PatternSignalsFrom(data, current_patterns, k + 1)

_generate_pattern_signals(data, pattern_data) ==
    IF DOMAIN pattern_data = {} THEN << >>
    ELSE PatternSignalsFrom(data, Get(pattern_data, "current_patterns", << >>), 1)

LastEvents == 3

RECURSIVE AbnormalSignalsFrom(_, _, _)
AbnormalSignalsFrom(data, events, k) ==
    IF k > Len(events) THEN << >>
    ELSE LET event == events[k]
             event_type == Get(event, "type", "")
             price_change == Get(event, "price_change", <<0, 1>>)
             volume_ratio == Get(event, "ratio", <<1, 1>>)
             date == Get(event, "date", IndexAt(data, -1))
             strength == RatMin(RatDiv(volume_ratio, <<3, 1>>), <<1, 1>>)
         IN  (IF event_type = "volume_spike" /\ Gt(volume_ratio, <<3, 1>>)
                 /\ Gt(price_change, <<1, 20>>)
              THEN <<Signal(date, "buy", "massive_volume_spike_up", strength, <<3, 4>>)>>
              ELSE IF event_type = "volume_spike" /\ Gt(volume_ratio, <<3, 1>>)
                      /\ Lt(price_change, <<-1, 20>>)
              THEN <<Signal(date, "sell", "massive_volume_spike_down", strength, <<3, 4>>)>>
              ELSE << >>) \o AbnormalSignalsFrom(data, events, k + 1)

(* recent_events[-3:] *)
_generate_abnormal_volume_signals(data, abnormal_data) ==
    IF DOMAIN abnormal_data = {} THEN << >>
    ELSE LET recent_events == Get(abnormal_data, "recent_events", << >>)
         IN  AbnormalSignalsFrom(data,
                 SubSeq(recent_events, Max2(1, Len(recent_events) - LastEvents + 1),
                        Len(recent_events)), 1)

SameKey(a, b) == a["date"] = b["date"] /\ a.signal_type = b.signal_type

(* the de-duplication loop from position k on: of the signals with one     *)
(* (date, signal_type) the first stays unless a later one is stronger      *)
RECURSIVE DedupeFrom(_, _, _)
DedupeFrom(signals, k, filtered_signals) ==
    IF k > Len(signals) THEN filtered_signals
    ELSE LET signal == signals[k]
             seen == {i \in 1..Len(filtered_signals) : SameKey(filtered_signals[i], signal)}
         IN  IF seen = {}
             THEN DedupeFrom(signals, k + 1, Append(filtered_signals, signal))
             ELSE LET i == CHOOSE i \in seen : \A j \in seen : i <= j
                  IN  IF RatLt(filtered_signals[i].strength, signal.strength)
                      THEN DedupeFrom(signals, k + 1, [filtered_signals EXCEPT ![i] = signal])
                      ELSE DedupeFrom(signals, k + 1, filtered_signals)

MinConfidence == <<1, 2>>
MinStrength == <<3, 10>>

ConfidentEnough_strict(sig) == RatLt(MinConfidence, Get(sig, "confidence", <<0, 1>>))

ConfidentEnough(sig) == RatLe(MinConfidence, Get(sig, "confidence", <<0, 1>>))
StrongEnough(sig) == RatLe(MinStrength, Get(sig, "strength", <<0, 1>>))

_filter_and_optimize_signals(signals) ==
    IF signals = << >> THEN << >>
    ELSE SelectSeq(SelectSeq(DedupeFrom(SortedByDate(signals), 1, << >>), ConfidentEnough),
                   StrongEnough)

RecentSignalDays == 5

SignalScore(sig) == RatMul(Get(sig, "strength", <<0, 1>>), Get(sig, "confidence", <<0, 1>>))

(* the first of the recent signals with the largest strength * confidence  *)
(* (a stable descending sort, then element 0)                              *)
_get_current_strongest_signal(signals) ==
    IF signals = << >> THEN None
    ELSE
    Bind(SelectSeq(signals,
                   LAMBDA sig : sig["date"] >= signals[Len(signals)]["date"]
                                               - RecentSignalDays),
         LAMBDA recent_signals :
        IF recent_signals = << >> THEN None
        ELSE recent_signals[CHOOSE k \in 1..Len(recent_signals) :
                               /\ \A j \in 1..Len(recent_signals) :
                                     RatLe(SignalScore(recent_signals[j]),
                                           SignalScore(recent_signals[k]))
                               /\ \A j \in 1..(k - 1) :
                                     RatLt(SignalScore(recent_signals[j]),
                                           SignalScore(recent_signals[k]))])

IsBuy(sig) == sig.signal_type = "buy"
IsSell(sig) == sig.signal_type = "sell"

_calculate_signal_statistics(signals) ==
    IF signals = << >> THEN << >>
    ELSE [total_signals |-> Len(signals),
          buy_signals |-> Len(SelectSeq(signals, IsBuy)),
          sell_signals |-> Len(SelectSeq(signals, IsSell)),
          avg_buy_strength |-> Series, avg_sell_strength |-> Series,
          avg_confidence |-> Series,
          signal_sources |-> {signals[k].source : k \in 1..Len(signals)}]

_generate_recommendation_inclusive(current_signal, result) ==
    LET comprehensive_score ==
            Get(Get(result, "comprehensive_score", << >>), "comprehensive_score", <<50, 1>>)
        rating == Get(Get(result, "comprehensive_score", << >>), "rating", "C")
        score_based_advice == [score |-> comprehensive_score, rating |-> rating]
    IN  IF IsNone(current_signal)
        THEN [action |-> "hold", confidence |-> <<1, 2>>, reason |-> "no_signal",
              risk_level |-> "medium", score_based_advice |-> score_based_advice]
        ELSE LET signal_type == current_signal.signal_type
                 signal_strength == current_signal.strength
                 signal_confidence == Get(current_signal, "confidence", <<1, 2>>)
                 side == IF signal_type = "buy" THEN "buy" ELSE "sell"
                 grade == IF Gt(signal_strength, <<4, 5>>) /\ Gt(signal_confidence, <<4, 5>>)
                          THEN <<"strong_", "low">>
                          ELSE IF Ge(signal_strength, <<3, 5>>) THEN <<"", "medium">>
                          ELSE <<"weak_", "medium_high">>
             IN  [action |-> grade[1] \o side, confidence |-> signal_confidence,
                  reason |-> Get(current_signal, "description", ""),
                  risk_level |-> grade[2],
                  signal_source |-> Get(current_signal, "source", ""),
                  score_based_advice |-> score_based_advice,
                  signal_date |-> Get(current_signal, "date", None)]

_generate_recommendation(current_signal, result) ==
    LET comprehensive_score ==
            Get(Get(result, "comprehensive_score", << >>), "comprehensive_score", <<50, 1>>)
        rating == Get(Get(result, "comprehensive_score", << >>), "rating", "C")
        score_based_advice == [score |-> comprehensive_score, rating |-> rating]
    IN  IF IsNone(current_signal)
        THEN [action |-> "hold", confidence |-> <<1, 2>>, reason |-> "no_signal",
              risk_level |-> "medium", score_based_advice |-> score_based_advice]
        ELSE LET signal_type == current_signal.signal_type
                 signal_strength == current_signal.strength
                 signal_confidence == Get(current_signal, "confidence", <<1, 2>>)
                 side == IF signal_type = "buy" THEN "buy" ELSE "sell"
                 grade == IF Gt(signal_strength, <<4, 5>>) /\ Gt(signal_confidence, <<4, 5>>)
                          THEN <<"strong_", "low">>
                          ELSE IF Gt(signal_strength, <<3, 5>>) THEN <<"", "medium">>
                          ELSE <<"weak_", "medium_high">>
             IN  [action |-> grade[1] \o side, confidence |-> signal_confidence,
                  reason |-> Get(current_signal, "description", ""),
                  risk_level |-> grade[2],
                  signal_source |-> Get(current_signal, "source", ""),
                  score_based_advice |-> score_based_advice,
                  signal_date |-> Get(current_signal, "date", None)]

(* signals.sort(...) inside _filter_and_optimize_signals sorts the list    *)
(* that is returned as all_signals                                         *)
_generate_trading_signals(data, result) ==
    IF Raises_current_divergence_get(Get(result, "divergence_analysis", << >>))
    THEN << >>
    ELSE
    Bind(_generate_relation_signals(data, Get(result, "volume_price_relation", << >>))
         \o _generate_divergence_signals(data, Get(result, "divergence_analysis", << >>))
         \o _generate_pattern_signals(data, Get(result, "volume_patterns", << >>))
         \o _generate_abnormal_volume_signals(data, Get(result, "abnormal_volume", << >>)),
         LAMBDA signals :
    Bind(_filter_and_optimize_signals(signals), LAMBDA filtered_signals :
    Bind(_get_current_strongest_signal(filtered_signals), LAMBDA current_signal :
        [all_signals |-> SortedByDate(signals),
         filtered_signals |-> filtered_signals,
         current_signal |-> current_signal,
         signal_statistics |-> _calculate_signal_statistics(filtered_signals),
         recommendation |-> _generate_recommendation(current_signal, result)])))


-----------------------------------------------------------------------------
(* VolumePriceAnalyzer.analyze_stock *)

(* [col for col in required_columns if col not in data.columns] *)
missing_columns(data) == RequiredColumns \ data.columns

ResultContainer_clocked(symbol, data, clock) ==
    [symbol |-> symbol,
     analysis_date |-> clock,
     data_range |-> [start_date |-> IndexAt(data, 0), end_date |-> IndexAt(data, -1),
                     total_days |-> Len0(data) + clock]]

(* the result container: symbol, analysis_date = datetime.now(), data_range *)
ResultContainer(symbol, data, clock) ==
    [symbol |-> symbol,
     analysis_date |-> clock,
     data_range |-> [start_date |-> IndexAt(data, 0), end_date |-> IndexAt(data, -1),
                     total_days |-> Len0(data)]]

(* what data.sort_index() leaves in the frame it is called on: the frame   *)
(* is not sorted in place, the sorted rows go to a new frame that only the *)
(* local name `data` refers to                                             *)
sort_index_leaves_inplace(data) == sort_index(data)

sort_index_leaves(data) == data

VPStages ==
    <<"basic_indicators", "volume_price_relation", "divergence_analysis", "volume_patterns",
      "price_volume_coordination", "abnormal_volume", "trend_analysis",
      "comprehensive_score", "trading_signals">>

(* stages 1 to 7, each reading only the sorted table *)
VPTableStages(data) ==
    [basic_indicators |-> _calculate_basic_indicators(data),
     volume_price_relation |-> _analyze_volume_price_relation(data),
     divergence_analysis |-> _analyze_divergence(data),
     volume_patterns |-> _identify_volume_patterns(data),
     price_volume_coordination |-> _analyze_price_volume_coordination(data),
     abnormal_volume |-> _analyze_abnormal_volume(data),
     trend_analysis |-> _analyze_volume_price_trend(data)]

(* the stages whose except clause was entered, given the stage results *)
VPFailedStages(result) ==
    {stage \in {"basic_indicators", "volume_price_relation", "divergence_analysis",
                "volume_patterns", "price_volume_coordination", "abnormal_volume",
                "trend_analysis", "trading_signals"} : DOMAIN result[stage] = {}}
    \cup (IF DOMAIN result.comprehensive_score = {"comprehensive_score", "rating"}
          THEN {"comprehensive_score"} ELSE {})

(* the outcome of one call: the exception that leaves analyze_stock, or    *)
(* the dictionary it returns, and the stages that were entered             *)
VP_analyze_stock(symbol, table, clock) ==
    IF IsEmpty(table)
    THEN [raised |-> "ValueError", result |-> None, stages |-> << >>]
    ELSE IF missing_columns(table) # {}
    THEN [raised |-> "ValueError", result |-> None, stages |-> << >>]
    ELSE
    Bind(sort_index(table), LAMBDA data :
        IF Len0(data) = 0
        THEN [raised |-> "IndexError", result |-> None, stages |-> << >>]
        ELSE
        Bind(ResultContainer(symbol, data, clock) @@ VPTableStages(data), LAMBDA upto7 :
        Bind(upto7 @@ [comprehensive_score |-> _calculate_comprehensive_score(upto7)],
             LAMBDA upto8 :
        Bind(upto8 @@ [trading_signals |-> _generate_trading_signals(data, upto8)],
             LAMBDA upto9 :
            [raised |-> "none", result |-> upto9, stages |-> VPStages]))))


-----------------------------------------------------------------------------
(* GannWheel.analyze_stock.  A stage that reads a column the table does    *)
(* not have raises KeyError inside its own try block and returns the       *)
(* default of its except clause.  Numbers that come from math.sqrt or      *)
(* math.tan of a bar price are kept as the token Series.                   *)

time_cycles == <<7, 14, 21, 30, 45, 60, 90, 120, 180, 360>>

Has(data, c) == c \in data.columns

(* the loop of _find_pivot_points runs at least once and reads data['High'] *)
(* and data['Low']                                                         *)
PivotLoopRuns(data) == Len0(data) > 2 * PivotWindow
Raises_find_pivot_points(data) ==
    PivotLoopRuns(data) /\ ~(Has(data, "High") /\ Has(data, "Low"))

RECURSIVE CountMatches(_, _, _)
CountMatches(all_points, cycle, i) ==
    IF i >= Len(all_points) THEN 0
    ELSE LET time_diff == Iloc(all_points, i)["date"] - Iloc(all_points, i - 1)["date"]
         IN  (IF RatLe(RatInt(Abs(time_diff - cycle)), RatMul(RatInt(cycle), Tolerance))
              THEN 1 ELSE 0) + CountMatches(all_points, cycle, i + 1)

_analyze_single_time_cycle(highs, lows, cycle) ==
    LET total_points == Len(highs) + Len(lows)
    IN  IF total_points = 0
        THEN [cycle |-> cycle, strength |-> <<0, 1>>, matches |-> 0]
        ELSE Bind(CountMatches(SortedByDate(highs \o lows), cycle, 1), LAMBDA matches :
                 [cycle |-> cycle,
                  strength |-> Rat(matches, Max2(total_points - 1, 1)),
                  matches |-> matches,
                  total_intervals |-> total_points - 1])

RECURSIVE InsertByStrengthDesc(_, _)
InsertByStrengthDesc(x, s) ==
    IF s = << >> THEN <<x>>
    ELSE IF RatLt(Head(s).strength, x.strength) THEN <<x>> \o s
         ELSE <<Head(s)>> \o InsertByStrengthDesc(x, Tail(s))

(* list.sort(key=lambda x: x['strength'], reverse=True): stable *)
RECURSIVE SortedByStrengthDesc(_)
SortedByStrengthDesc(s) ==
    IF s = << >> THEN << >>
    ELSE InsertByStrengthDesc(s[Len(s)], SortedByStrengthDesc(SubSeq(s, 1, Len(s) - 1)))

TopWindows == 3

_calculate_next_time_windows(data, cycles) ==
    [k \in 1..Min2(Len(cycles), TopWindows) |->
        [cycle |-> cycles[k].cycle, next_date |-> IndexAt(data, -1) + cycles[k].cycle,
         strength |-> cycles[k].strength, days_ahead |-> cycles[k].cycle]]

_analyze_time_cycles(data) ==
    IF Raises_find_pivot_points(data)
    THEN [cycles_found |-> << >>, dominant_cycle |-> None, next_time_windows |-> << >>]
    ELSE
    Bind(_find_pivot_points(data, PivotWindow), LAMBDA pivots :
    Bind(SortedByStrengthDesc(SelectSeq(
             [k \in 1..Len(time_cycles) |->
                 _analyze_single_time_cycle(pivots.highs, pivots.lows, time_cycles[k])],
             LAMBDA c : RatLt(<<3, 10>>, c.strength))),
         LAMBDA time_cycles_found :
        [cycles_found |-> time_cycles_found,
         dominant_cycle |-> IF time_cycles_found # << >> THEN time_cycles_found[1]
                            ELSE None,
         next_time_windows |-> _calculate_next_time_windows(data, time_cycles_found)]))

(* data[c].max() and data[c].min() *)
MaxCol(data, c) ==
    LET values == {Col(data, c, k) : k \in 0..(Len0(data) - 1)}
    IN  CHOOSE x \in values : \A y \in values : y <= x

MinCol(data, c) ==
    LET values == {Col(data, c, k) : k \in 0..(Len0(data) - 1)}
    IN  CHOOSE x \in values : \A y \in values : x <= y

_analyze_price_cycles(data) ==
    IF ~(Has(data, "High") /\ Has(data, "Low") /\ Has(data, "Close"))
    THEN [price_range |-> 0, price_center |-> 0, key_levels |-> << >>,
          current_position |-> << >>]
    ELSE LET high == MaxCol(data, "High")
             low == MinCol(data, "Low")
         IN  [price_range |-> high - low,
              price_center |-> Rat(high + low, 2),
              key_levels |-> Series,
              current_position |->
                 [current_price |-> Col(data, "Close", -1),
                  nearest_support |-> Series, nearest_resistance |-> Series,
                  support_distance |-> Series, resistance_distance |-> Series]]

_analyze_gann_angles(data) ==
    IF Raises_find_pivot_points(data) \/ ~Has(data, "Close")
    THEN [angle_lines |-> << >>, current_angle_support |-> None,
          current_angle_resistance |-> None]
    ELSE LET pivots == _find_pivot_points(data, PivotWindow)
         IN  IF pivots = [highs |-> << >>, lows |-> << >>]
             THEN [angle_lines |-> << >>, current_angle_support |-> None,
                   current_angle_resistance |-> None]
             ELSE [angle_lines |-> Series, current_angle_support |-> Series,
                   current_angle_resistance |-> Series]

(* int(math.sqrt(x)) for a positive integer x *)
IntSqrt(x) == CHOOSE r \in 0..x : r * r <= x /\ (r + 1) * (r + 1) > x

(* the perfect square nearest to the last close, the lower one on a tie *)
SquareCenter(current_price) ==
    LET root == IntSqrt(current_price)
    IN  IF Abs(current_price - (root + 1) * (root + 1)) < Abs(current_price - root * root)
        THEN (root + 1) * (root + 1) ELSE root * root

_analyze_gann_square(data) ==
    IF ~(Has(data, "Close") /\ Has(data, "Low") /\ Has(data, "High"))
    THEN [square_center |-> 0, square_levels |-> << >>, current_position |-> << >>,
          next_levels |-> << >>]
    ELSE [square_center |-> SquareCenter(Col(data, "Close", -1)),
          square_levels |-> Series, current_position |-> Series,
          next_levels |-> Series, square_strength |-> Series]

_analyze_time_price_resonance(data) ==
    IF Raises_find_pivot_points(data)
    THEN [resonance_points |-> << >>, strongest_resonance |-> None,
          next_resonance_prediction |-> None]
    ELSE LET pivots == _find_pivot_points(data, PivotWindow)
         IN  IF pivots = [highs |-> << >>, lows |-> << >>]
             THEN [resonance_points |-> << >>, strongest_resonance |-> None,
                   next_resonance_prediction |-> None]
             ELSE [resonance_points |-> Series, strongest_resonance |-> Series,
                   next_resonance_prediction |-> Series]

_calculate_key_levels(data) ==
    IF ~(Has(data, "Close") /\ Has(data, "High") /\ Has(data, "Low"))
    THEN [current_price |-> 0, key_supports |-> << >>, key_resistances |-> << >>,
          strongest_support |-> None, strongest_resistance |-> None]
    ELSE [current_price |-> Col(data, "Close", -1),
          key_supports |-> Series, key_resistances |-> Series,
          strongest_support |-> Series, strongest_resistance |-> Series]

_predict_by_time_cycles(time_analysis) ==
    LET time_windows == Get(time_analysis, "next_time_windows", << >>)
    IN  [predictions |->
            [k \in 1..Len(time_windows) |->
                [type |-> "time_cycle", target_date |-> time_windows[k].next_date,
                 cycle_days |-> time_windows[k].cycle,
                 strength |-> time_windows[k].strength,
                 prediction |-> "potential_turning_point"]],
         dominant_cycle |-> Get(time_analysis, "dominant_cycle", None)]

_generate_predictions(data, result) ==
    IF ~Has(data, "Close")
    THEN [current_price |-> 0, current_date |-> None, combined_prediction |-> << >>]
    ELSE [current_price |-> Col(data, "Close", -1),
          current_date |-> IndexAt(data, -1),
          time_predictions |-> _predict_by_time_cycles(Get(result, "time_analysis", << >>)),
          price_predictions |->
             [predictions |-> Series,
              current_position |-> Get(Get(result, "price_analysis", << >>),
                                       "current_position", None)],
          angle_predictions |->
             [predictions |-> Series,
              current_support |-> Get(Get(result, "angle_analysis", << >>),
                                      "current_angle_support", None),
              current_resistance |-> Get(Get(result, "angle_analysis", << >>),
                                         "current_angle_resistance", None)],
          combined_prediction |->
             [all_predictions |-> Series, strongest_prediction |-> Series,
              overall_trend |-> Series, direction |-> Series, target_price |-> Series,
              trend_strength |-> Series, up_strength |-> Series, down_strength |-> Series],
          confidence_level |-> Series]

GannStages ==
    <<"time_analysis", "price_analysis", "angle_analysis", "square_analysis",
      "resonance_analysis", "key_levels", "predictions">>

GannTableStages(data) ==
    [time_analysis |-> _analyze_time_cycles(data),
     price_analysis |-> _analyze_price_cycles(data),
     angle_analysis |-> _analyze_gann_angles(data),
     square_analysis |-> _analyze_gann_square(data),
     resonance_analysis |-> _analyze_time_price_resonance(data),
     key_levels |-> _calculate_key_levels(data)]

Gann_analyze_stock(symbol, table, clock) ==
    IF IsEmpty(table)
    THEN [raised |-> "ValueError", result |-> None, stages |-> << >>]
    ELSE
    Bind(sort_index(table), LAMBDA data :
        IF Len0(data) = 0
        THEN [raised |-> "IndexError", result |-> None, stages |-> << >>]
        ELSE
        Bind(ResultContainer(symbol, data, clock) @@ GannTableStages(data), LAMBDA upto6 :
        Bind(upto6 @@ [predictions |-> _generate_predictions(data, upto6)], LAMBDA upto7 :
            [raised |-> "none", result |-> upto7, stages |-> GannStages])))


-----------------------------------------------------------------------------
(* Specification Spec: one GannWheel and one VolumePriceAnalyzer, built    *)
(* with the default configuration, are called on the caller's bar table    *)
(* while the wall clock advances.                                          *)

MaxCalls == 2
MaxClock == 1

(* __init__ of the two analyzers with config = {} *)
InitSelf ==
    [GannWheel |->
        [config |-> << >>, time_cycles |-> time_cycles,
         price_angles |-> <<15, 30, 45, 60, 75, 90, 105, 120, 135, 150, 165, 180>>,
         square_size |-> 144, tolerance |-> Tolerance],
     VolumePriceAnalyzer |->
        [config |-> << >>, volume_ma_periods |-> <<5, 10, 20, 60>>,
         price_ma_periods |-> <<5, 10, 20, 60>>,
         divergence_threshold |-> divergence_threshold,
         volume_spike_threshold |-> volume_spike_threshold,
         correlation_window |-> correlation_window]]

(* Bar tables.  The bar of day i of a drifting table opens and closes at   *)
(* 1000 + i, one point inside its High and Low, on a volume of 20; a flat  *)
(* table stays at 1000.  An event bar departs from its day's base b.       *)
BaseBar(b) == [Open |-> b, High |-> b + 1, Low |-> b - 1, Close |-> b, Volume |-> 20]

EventBar(b, event) ==
    CASE event = "peak"        ->
            [Open |-> b, High |-> b + 31, Low |-> b - 1, Close |-> b + 2, Volume |-> 20]
      [] event = "quiet_peak"  ->
            [Open |-> b, High |-> b + 31, Low |-> b - 1, Close |-> b + 2, Volume |-> 10]
      [] event = "trough"      ->
            [Open |-> b, High |-> b + 1, Low |-> b - 31, Close |-> b - 2, Volume |-> 20]
      [] event = "loud_trough" ->
            [Open |-> b, High |-> b + 1, Low |-> b - 81, Close |-> b - 40, Volume |-> 60]
      [] event = "breakout"    ->
            [Open |-> b, High |-> b + 101, Low |-> b - 1, Close |-> b + 100, Volume |-> 80]
      [] event = "dump"        ->
            [Open |-> b, High |-> b + 1, Low |-> b - 101, Close |-> b - 100, Volume |-> 80]
      [] OTHER                 -> BaseBar(b)

(* n bars dated 0 .. n-1 with the events of `events` (position -> event)   *)
(* and base 1000 + drift * position                                        *)
Table(n, drift, events) ==
    [columns |-> RequiredColumns,
     rows |-> [i \in 1..n |->
                 [date |-> i - 1]
                 @@ EventBar(1000 + drift * (i - 1), Get(events, i - 1, "none"))]]

(* the same table as the caller may hold it: newest bar first *)
Reversed(data) ==
    [columns |-> data.columns,
     rows |-> [i \in 1..Len0(data) |-> data.rows[Len0(data) + 1 - i]]]

(* the table without the columns in `dropped` *)
Without(data, dropped) ==
    [columns |-> data.columns \ dropped,
     rows |-> [i \in 1..Len0(data) |->
                 [c \in (DOMAIN data.rows[i]) \ dropped |-> data.rows[i][c]]]]

(* two events of one kind and what the last bar does *)
EventPairs == {<<"none", "none">>, <<"peak", "peak">>, <<"peak", "quiet_peak">>,
               <<"trough", "loud_trough">>}
LastBars == {"none", "breakout", "dump"}

Events(at1, at2, pair, at3, last) ==
    (at1 :> pair[1]) @@ (at2 :> pair[2]) @@ (at3 :> last)

ShortTables ==
    {Table(1, 1, << >>), Table(5, 1, << >>), Table(5, 0, << >>),
     Reversed(Table(5, 1, 4 :> "breakout")), Table(12, 0, << >>), Table(17, 0, << >>)}

(* 17 bars: long enough for two pivots, too short for the 30-bar look-back *)
PivotTables == {Table(17, 1, Events(5, 11, pair, 16, "none")) : pair \in EventPairs}

(* 30 and 61 bars: the later event 7 days before the last bar, or 21 days, *)
(* or before the 30-day look-back; 70 bars: an old divergence and a        *)
(* heavy-volume day 9 days before the last bar                             *)
LongTables ==
    {Table(30, 1, Events(10, 22, pair, 29, last)) : pair \in EventPairs, last \in LastBars}
    \cup {Table(61, 1, Events(30, 53, pair, 60, last)) :
             pair \in EventPairs, last \in {"none", "breakout"}}
    \cup {Table(61, 1, Events(20, 39, <<"trough", "loud_trough">>, 60, "dump")),
          Table(61, 1, Events(10, 25, <<"peak", "quiet_peak">>, 60, "none"))}
    \cup {Table(70, 1, Events(10, 25, <<"peak", "quiet_peak">>, 60, heavy)) :
             heavy \in {"breakout", "dump"}}

ValidTables == ShortTables \cup PivotTables \cup LongTables

EmptyTables ==
    {[columns |-> {}, rows |-> << >>],
     [columns |-> RequiredColumns, rows |-> << >>],
     [columns |-> {}, rows |-> <<[date |-> 0], [date |-> 1]>>]}

IncompleteTables ==
    {Without(Table(5, 1, << >>), {c}) : c \in RequiredColumns}
    \cup {Without(Table(5, 1, << >>), RequiredColumns \ {"Open"}),
          Without(Table(12, 1, << >>), {"Volume", "Open"})}

(* the two statistics of the table that pandas computes with square roots  *)
Statistics(data) ==
    IF Len0(data) < MaPeriod + 2 \/ RequiredColumns \ data.columns # {}
    THEN {[current_correlation |-> NaN, coordination_score |-> NaN]}
    ELSE {[current_correlation |-> correlation, coordination_score |-> coordination] :
             correlation \in IF CorrelationUndefined(data) THEN {NaN}
                             ELSE {<<4, 5>>, <<0, 1>>, <<-4, 5>>},
             coordination \in IF CoordinationUndefined(data) THEN {NaN}
                              ELSE {<<2, 1>>, <<0, 1>>, <<-1, 1>>}}

Init ==
    /\ pc = "ready"
    /\ bars \in ValidTables \cup EmptyTables \cup IncompleteTables
    /\ args \in Statistics(bars)
    /\ now = 0
    /\ self = InitSelf
    /\ analysis_result = None /\ raised = "none" /\ stages_run = << >>
    /\ history = << >> /\ ret = None

(* the caller's side of one call: the exception or the returned dictionary *)
Receive(engine, out) ==
    /\ raised' = out.raised
    /\ analysis_result' = out.result
    /\ stages_run' = out.stages
    /\ history' = Append(history, [engine |-> engine, raised |-> out.raised,
                                   result |-> out.result])
    /\ pc' = IF out.raised = "none" THEN "returned" ELSE "raised"

(* one call of VolumePriceAnalyzer.analyze_stock(symbol, bars) *)
AnalyzeVolumePrice ==
    /\ Len(history) < MaxCalls
    /\ Receive("VolumePriceAnalyzer", VP_analyze_stock("SYM", bars, now))
    /\ bars' = sort_index_leaves(bars)
    /\ UNCHANGED <<now, self, args, ret>>

(* one call of GannWheel.analyze_stock(symbol, bars) *)
AnalyzeGann ==
    /\ Len(history) < MaxCalls
    /\ Receive("GannWheel", Gann_analyze_stock("SYM", bars, now))
    /\ bars' = sort_index_leaves(bars)
    /\ UNCHANGED <<now, self, args, ret>>

(* time passes between calls *)
Tick ==
    /\ now < MaxClock
    /\ now' = now + 1
    /\ UNCHANGED <<pc, bars, self, analysis_result, raised, stages_run, history, args, ret>>

Next == AnalyzeVolumePrice \/ AnalyzeGann \/ Tick

Spec == Init /\ [][Next]_vars

-----------------------------------------------------------------------------
(* Properties of Spec *)

Calls == {history[k] : k \in 1..Len(history)}
CallsOf(engine) == {call \in Calls : call.engine = engine}
Returns(call) == call.raised = "none"
EmptyBars == bars.rows = << >> \/ bars.columns = {}
LacksColumn == ~EmptyBars /\ ~(RequiredColumns \subseteq bars.columns)
ValidBars == ~EmptyBars /\ RequiredColumns \subseteq bars.columns
Elements(s) == {s[k] : k \in 1..Len(s)}

(* the letter the documented cutoffs give a score *)
DocumentedRating(score) ==
    CASE RatLe(<<90, 1>>, score) -> "A+"
      [] RatLt(score, <<90, 1>>) /\ RatLe(<<80, 1>>, score) -> "A"
      [] RatLt(score, <<80, 1>>) /\ RatLe(<<70, 1>>, score) -> "B+"
      [] RatLt(score, <<70, 1>>) /\ RatLe(<<60, 1>>, score) -> "B"
      [] RatLt(score, <<60, 1>>) /\ RatLe(<<50, 1>>, score) -> "C+"
      [] RatLt(score, <<50, 1>>) /\ RatLe(<<40, 1>>, score) -> "C"
      [] RatLt(score, <<40, 1>>) /\ RatLe(<<30, 1>>, score) -> "D+"
      [] OTHER -> "D"

(* C1: in every result VolumePriceAnalyzer.analyze_stock returns, the      *)
(* comprehensive score lies in [0, 100] and the rating is the letter the   *)
(* documented cutoffs assign to that score.                                *)
C1_ScoreRatingConsistent ==
    \A call \in CallsOf("VolumePriceAnalyzer") :
        Returns(call) =>
            LET scored == call.result.comprehensive_score
            IN  /\ RatLe(<<0, 1>>, scored.comprehensive_score)
                /\ RatLe(scored.comprehensive_score, <<100, 1>>)
                /\ scored.rating = DocumentedRating(scored.comprehensive_score)

(* what holds instead: the score is in range, and the rating is the        *)
(* documented letter unless the score computation fell back                *)
C1_ScoreInRange ==
    \A call \in CallsOf("VolumePriceAnalyzer") :
        Returns(call) =>
            LET scored == call.result.comprehensive_score
            IN  /\ RatLe(<<0, 1>>, scored.comprehensive_score)
                /\ RatLe(scored.comprehensive_score, <<100, 1>>)
                /\ \/ scored.rating = DocumentedRating(scored.comprehensive_score)
                   \/ scored = [comprehensive_score |-> <<50, 1>>, rating |-> "C"]

SignalsOf(result) ==
    Elements(Get(result.trading_signals, "all_signals", << >>))
    \cup Elements(Get(result.trading_signals, "filtered_signals", << >>))

(* C3: every trading signal in all_signals and filtered_signals of a       *)
(* VolumePriceAnalyzer result has a strength in [0, 1].                    *)
C3_SignalStrengthInUnitInterval ==
    \A call \in CallsOf("VolumePriceAnalyzer") :
        Returns(call) =>
            \A sig \in SignalsOf(call.result) :
                RatLe(<<0, 1>>, sig.strength) /\ RatLe(sig.strength, <<1, 1>>)

WithoutDate(call) ==
    IF Returns(call) THEN [call.result EXCEPT !.analysis_date = 0] ELSE call.result

C5_EmptyTableRaises ==
    (EmptyBars /\ history # << >>) =>
        /\ raised = "ValueError" /\ stages_run = << >> /\ IsNone(analysis_result)
        /\ pc = "raised"
        /\ \A call \in Calls : call.raised = "ValueError" /\ IsNone(call.result)

C5_Witness ==
    /\ EmptyBars /\ Len(history) = 2
    /\ history[1].engine # history[2].engine
    /\ raised = "ValueError"

(* C6: when the table is non-empty but lacks a required column, the entry  *)
(* point of each engine raises and returns no result dictionary.           *)
C6_MissingColumnRaises ==
    LacksColumn =>
        \A call \in Calls : ~Returns(call) /\ IsNone(call.result)

(* the part of C6 that holds: VolumePriceAnalyzer raises ValueError *)
C6_VolumePriceRaises ==
    LacksColumn =>
        \A call \in CallsOf("VolumePriceAnalyzer") :
            call.raised = "ValueError" /\ IsNone(call.result)


(* the sub-keys of each stage when it succeeds *)
SuccessKeys ==
    [basic_indicators |->
        {"price_change", "price_volatility", "volume_change", "volume_ma", "price_ma",
         "relative_volume", "volume_ratio", "price_amplitude", "vwap", "current_status"},
     volume_price_relation |->
        {"overall_correlation", "rolling_correlation", "current_correlation",
         "volume_price_patterns", "strength_analysis", "consistency_analysis"},
     divergence_analysis |->
        {"divergences", "top_divergences", "bottom_divergences", "current_divergence",
         "divergence_strength", "total_divergences"},
     volume_patterns |-> {"all_patterns", "current_patterns", "pattern_summary"},
     price_volume_coordination |->
        {"coordination_score", "coordination_trend", "coordination_levels",
         "current_coordination", "avg_coordination"},
     abnormal_volume |->
        {"abnormal_events", "recent_events", "spike_count", "drop_count", "latest_abnormal"},
     trend_analysis |->
        {"price_trend", "volume_trend", "trend_consistency", "trend_strength",
         "trend_sustainability", "overall_trend"},
     comprehensive_score |-> {"individual_scores", "comprehensive_score", "rating", "weights"},
     trading_signals |->
        {"all_signals", "filtered_signals", "current_signal", "signal_statistics",
         "recommendation"},
     time_analysis |-> {"cycles_found", "dominant_cycle", "next_time_windows"},
     price_analysis |-> {"price_range", "price_center", "key_levels", "current_position"},
     angle_analysis |-> {"angle_lines", "current_angle_support", "current_angle_resistance"},
     square_analysis |->
        {"square_center", "square_levels", "current_position", "next_levels",
         "square_strength"},
     resonance_analysis |->
        {"resonance_points", "strongest_resonance", "next_resonance_prediction"},
     key_levels |->
        {"current_price", "key_supports", "key_resistances", "strongest_support",
         "strongest_resistance"},
     predictions |->
        {"current_price", "current_date", "time_predictions", "price_predictions",
         "angle_predictions", "combined_prediction", "confidence_level"}]

(* the sub-keys of the default each stage holds after it failed *)
DefaultKeys ==
    [stage \in DOMAIN SuccessKeys |->
        CASE stage = "comprehensive_score" -> {"comprehensive_score", "rating"}
          [] stage = "square_analysis" -> SuccessKeys[stage] \ {"square_strength"}
          [] stage = "predictions" -> {"current_price", "current_date", "combined_prediction"}
          [] stage \in Elements(GannStages) -> SuccessKeys[stage]
          [] OTHER -> {}]

StagesOf(engine) ==
    IF engine = "GannWheel" THEN Elements(GannStages) ELSE Elements(VPStages)

(* C7 as stated: on a non-empty table with the required columns the call   *)
(* returns, the result has every stage key, and every stage, failed or     *)
(* not, has the sub-keys of a successful stage.                            *)
C7_FailedStageKeepsSubKeys ==
    ValidBars =>
        \A call \in Calls :
            /\ Returns(call)
            /\ \A stage \in StagesOf(call.engine) :
                  /\ stage \in DOMAIN call.result
                  /\ DOMAIN call.result[stage] = SuccessKeys[stage]

(* C7 amended: on a non-empty table with the required columns the call     *)
(* returns and the result has every stage key; a stage holds either its    *)
(* successful sub-keys or the default of its except clause, which for the  *)
(* volume-price stages is the empty dictionary, for comprehensive_score    *)
(* only the score 50 and the rating C.  GannWheel returns on every         *)
(* non-empty table, its defaults of square_analysis and predictions        *)
(* lacking sub-keys of the successful stage.                               *)
C7_StageKeysComplete ==
    \A call \in Calls :
        (ValidBars \/ (call.engine = "GannWheel" /\ ~EmptyBars)) =>
            /\ Returns(call)
            /\ \A stage \in StagesOf(call.engine) :
                  /\ stage \in DOMAIN call.result
                  /\ DOMAIN call.result[stage] \in {SuccessKeys[stage], DefaultKeys[stage]}

C7_Witness ==
    /\ ValidBars /\ Len0(bars) < RecentWindowDays
    /\ \E call \in CallsOf("VolumePriceAnalyzer") :
          /\ Returns(call)
          /\ DOMAIN call.result.divergence_analysis = {}
          /\ DOMAIN call.result.comprehensive_score = SuccessKeys.comprehensive_score
          /\ DOMAIN call.result.trading_signals = SuccessKeys.trading_signals

-----------------------------------------------------------------------------
(* PricePredictionAnalyzer: the confidence of every prediction model.      *)
(* A prediction is [type, direction, target_price, confidence].  The bar   *)
(* table enters only through statistics of it (market): current_price,     *)
(* market_volatility = Close.pct_change().std(), volume_factor =           *)
(* Volume.iloc[-1] / Volume.mean(), the three volume ratios, the recent    *)
(* high and low, and the number of rows.  Target prices that the source    *)
(* computes with math.tan or np.sqrt are laid out by `layout`: "together"  *)
(* puts them all on the current price, "apart" ten points from each other. *)

(* Python's min(a, b) and max(a, b): b only when the comparison says so,   *)
(* so a NaN in b leaves a                                                  *)
PyMin(a, b) == IF Lt(b, a) THEN b ELSE a
PyMax(a, b) == IF Gt(b, a) THEN b ELSE a

(* int(x) of a finite float: truncation toward zero *)
IntPart(x) == IF x[1] >= 0 THEN x[1] \div x[2] ELSE -((-x[1]) \div x[2])

base_confidence(prediction_type) ==
    CASE prediction_type = "gann_wheel_angle"   -> 75
      [] prediction_type = "volume_breakout"    -> 70
      [] prediction_type = "fibonacci"          -> 65
      [] prediction_type = "pivot_support"      -> 60
      [] prediction_type = "pivot_resistance"   -> 60
      [] prediction_type = "support_resistance" -> 55
      [] OTHER                                  -> 50

(* (strength - 0.5) * 35 *)
strength_adjustment(strength) == RatMul(RatSub(strength, <<1, 2>>), <<35, 1>>)

(* max(-10, min(10, (0.02 - market_volatility) * 200)) *)
volatility_adjustment(market_volatility) ==
    PyMax(<<-10, 1>>, PyMin(<<10, 1>>, RatMul(RatSub(<<1, 50>>, market_volatility), <<200, 1>>)))

(* max(-5, min(10, (volume_factor - 1) * 10)) *)
volume_adjustment(volume_factor) ==
    PyMax(<<-5, 1>>, PyMin(<<10, 1>>, RatMul(RatSub(volume_factor, <<1, 1>>), <<10, 1>>)))

(* (technical_alignment - 0.5) * 25 *)
alignment_adjustment(technical_alignment) ==
    RatMul(RatSub(technical_alignment, <<1, 2>>), <<25, 1>>)

(* base + strength, volatility, volume and alignment adjustments *)
final_confidence(prediction_type, strength, market_volatility, volume_factor, technical_alignment) ==
    RatAdd(RatAdd(RatAdd(RatAdd(
        RatInt(base_confidence(prediction_type)),
        strength_adjustment(strength)),
        volatility_adjustment(market_volatility)),
        volume_adjustment(volume_factor)),
        alignment_adjustment(technical_alignment))

(* int() of NaN raises ValueError, of an infinity OverflowError *)
Raises_calculate_dynamic_confidence(strength, technical_alignment) ==
    strength[2] = 0 \/ technical_alignment[2] = 0

_calculate_dynamic_confidence_unclamped(prediction_type, strength, market_volatility, volume_factor, technical_alignment) ==
    IntPart(final_confidence(prediction_type, strength, market_volatility,
                             volume_factor, technical_alignment))

(* max(30, min(95, int(final_confidence))) *)
_calculate_dynamic_confidence(prediction_type, strength, market_volatility, volume_factor, technical_alignment) ==
    Max2(30, Min2(95, IntPart(final_confidence(prediction_type, strength,
                                               market_volatility, volume_factor,
                                               technical_alignment))))

Prediction(type, direction, target_price, confidence) ==
    [type |-> type, direction |-> direction, target_price |-> target_price,
     confidence |-> confidence]

TargetPrice(market, layout, position) ==
    IF layout = "together" THEN market.current_price
    ELSE market.current_price + 20 * position

(* isinstance(level, dict); a level that is a bare number n is kept as    *)
(* [number |-> n]                                                          *)
IsDict(level) == "number" \notin DOMAIN level

LevelPrice(level) == IF IsDict(level) THEN Get(level, "price", 0) ELSE level.number
LevelStrength(level) == IF IsDict(level) THEN Get(level, "strength", <<1, 2>>) ELSE <<1, 2>>
LevelType(level, default) == IF IsDict(level) THEN Get(level, "type", default) ELSE default

MaxLevelsUsed == 8

(* the 8 angles of the wheel, each an up and a down target; strength 0.9   *)
(* and alignment 0.8 on 45 and 90 degrees, else 0.7 and 0.6                *)
gann_angles == <<<<15, 1>>, <<45, 2>>, <<30, 1>>, <<45, 1>>, <<60, 1>>, <<135, 2>>,
                 <<75, 1>>, <<90, 1>> >>

_calculate_detailed_gann_wheel_levels(market, layout) ==
    [k \in 1..(2 * Len(gann_angles)) |->
        LET angle == gann_angles[(k + 1) \div 2]
            cardinal == angle \in {<<45, 1>>, <<90, 1>>}
            strength == IF cardinal THEN <<9, 10>> ELSE <<7, 10>>
            technical_alignment == IF cardinal THEN <<4, 5>> ELSE <<3, 5>>
        IN  IF k % 2 = 1
            THEN Prediction("gann_wheel_angle", "up", TargetPrice(market, layout, k),
                     _calculate_dynamic_confidence("gann_wheel_angle", strength,
                         market.market_volatility, market.volume_factor,
                         technical_alignment))
            ELSE Prediction("gann_wheel_angle", "down", TargetPrice(market, layout, k),
                     _calculate_dynamic_confidence("gann_wheel_angle",
                         RatMul(strength, <<9, 10>>),
                         market.market_volatility, market.volume_factor,
                         technical_alignment))]

(* cardinal: _calculate_gann_angle(current_price, price) in [45, 90, 180, 270] *)
_calculate_gann_price_targets(market, gann_analysis, cardinal, layout) ==
    LET key_levels == Get(gann_analysis, "key_levels", << >>)
        supports == Get(key_levels, "key_supports", << >>)
        resistances == Get(key_levels, "key_resistances", << >>)
        current_price == market.current_price
    IN  ListOf(0, Min2(Len(supports), MaxLevelsUsed),
               LAMBDA i : /\ LevelPrice(Iloc(supports, i)) > 0
                          /\ LevelPrice(Iloc(supports, i)) < current_price,
               LAMBDA i : Prediction("gann_" \o LevelType(Iloc(supports, i), "support"),
                              "down", LevelPrice(Iloc(supports, i)),
                              _calculate_dynamic_confidence("gann_wheel_angle",
                                  PyMax(<<2, 5>>, RatSub(LevelStrength(Iloc(supports, i)),
                                                         Rat(i, 10))),
                                  market.market_volatility, market.volume_factor,
                                  IF cardinal THEN <<4, 5>> ELSE <<3, 5>>)))
        \o ListOf(0, Min2(Len(resistances), MaxLevelsUsed),
               LAMBDA i : /\ LevelPrice(Iloc(resistances, i)) > 0
                          /\ LevelPrice(Iloc(resistances, i)) > current_price,
               LAMBDA i : Prediction("gann_" \o LevelType(Iloc(resistances, i), "resistance"),
                              "up", LevelPrice(Iloc(resistances, i)),
                              Min2(90 - i * 5, 95)))
        \o _calculate_detailed_gann_wheel_levels(market, layout)


(* the k-th signal of volume_analysis['signals']['current_signals'] that   *)
(* names a divergence gives three targets; kind is "bottom" when the type  *)
(* names a bottom divergence, "top" when a top divergence                  *)
DivergenceTargets(market, kind, strength, layout, first) ==
    [j \in 1..3 |->
        Prediction("volume_divergence_level_" \o ToString(j),
                   IF kind = "bottom" THEN "up" ELSE "down",
                   TargetPrice(market, layout, first + j),
                   _calculate_dynamic_confidence("volume_breakout",
                       PyMax(<<3, 10>>, RatSub(strength, Rat(j - 1, 10))),
                       market.volatility, market.volume_ratio_20,
                       IF kind = "bottom" THEN <<7, 10>> ELSE <<3, 5>>))]

RECURSIVE DivergenceTargetsFrom(_, _, _, _)
DivergenceTargetsFrom(market, current_signals, layout, k) ==
    IF k > Len(current_signals) THEN << >>
    ELSE (IF IsDict(current_signals[k])
             /\ Get(current_signals[k], "type", "") \in {"bottom", "top"}
          THEN DivergenceTargets(market, current_signals[k].type,
                                 Get(current_signals[k], "strength", <<0, 1>>),
                                 layout, 20 + 3 * k)
          ELSE << >>) \o DivergenceTargetsFrom(market, current_signals, layout, k + 1)

(* for each of the three volume ratios above 1.5, three breakout targets *)
BreakoutTargets(market, layout) ==
    LET volume_ratios == <<market.volume_ratio_20, market.volume_ratio_10,
                           market.volume_ratio_5>>
    IN  ListOf(0, 9,
               LAMBDA n : Gt(volume_ratios[n \div 3 + 1], <<3, 2>>),
               LAMBDA n : Prediction("volume_breakout_level_" \o ToString((n % 3) + 1), "up",
                                     TargetPrice(market, layout, 40 + n),
                                     Min2(80 - (n % 3) * 10, 85)))

TopVolumeRows == 20

(* data.nlargest(20, 'Volume'): the row at position k of the ranking has   *)
(* volume_rank = len(volume_sorted) - k                                    *)
_calculate_detailed_volume_price_levels(market, layout) ==
    LET ranked == Min2(TopVolumeRows, market.rows)
    IN  [k \in 1..ranked |->
            Prediction("volume_price_memory",
                       IF TargetPrice(market, layout, 50 + k) > market.current_price
                       THEN "up" ELSE "down",
                       TargetPrice(market, layout, 50 + k),
                       Min2(90, 70 + (ranked - (k - 1))))]

_calculate_volume_price_targets(market, volume_analysis, layout) ==
    DivergenceTargetsFrom(market,
        Get(Get(volume_analysis, "signals", << >>), "current_signals", << >>), layout, 1)
    \o BreakoutTargets(market, layout)
    \o _calculate_detailed_volume_price_levels(market, layout)

fib_levels == <<<<236, 1000>>, <<382, 1000>>, <<1, 2>>, <<618, 1000>>, <<786, 1000>> >>

(* retracement_price = high_price - price_range * level, kept when it is   *)
(* more than 2% from the current price                                     *)
_calculate_fibonacci_targets(market) ==
    LET retracement_price(k) ==
            RatSub(RatInt(market.high_price),
                   RatMul(RatInt(market.high_price - market.low_price),
                          Rat(fib_levels[k][1], fib_levels[k][2])))
        current_price == RatInt(market.current_price)
    IN  ListOf(1, Len(fib_levels) + 1,
               LAMBDA k : Gt(RatDiv(RatAbs(RatSub(retracement_price(k), current_price)),
                                    current_price), <<1, 50>>),
               LAMBDA k : Prediction("fibonacci_" \o ToString(k),
                              IF Lt(retracement_price(k), current_price) THEN "down"
                              ELSE "up",
                              IntPart(retracement_price(k)),
                              IF fib_levels[k] \in {<<382, 1000>>, <<618, 1000>>}
                              THEN 70 ELSE 60))

PivotConfidence == 75
MaxPivotConfidence == 90

(* the confidence _calculate_pivot_points gives a point that absorbed      *)
(* `merged` similar points: 75, then min(confidence + 5, 90) per merge     *)
RECURSIVE pivot_point_confidence(_)
pivot_point_confidence(merged) ==
    IF merged = 0 THEN PivotConfidence
    ELSE Min2(pivot_point_confidence(merged - 1) + 5, MaxPivotConfidence)

(* strength = point['confidence'] *)
PivotStrength(point) == RatInt(pivot_point_confidence(point.merged))

(* pivot_points: [target_price, type, merged]; point['confidence'] is      *)
(* passed as the strength; touches is never a key of a point               *)
_calculate_support_resistance_targets(market, pivot_points) ==
    LET current_price == market.current_price
    IN  ListOf(0, Len(pivot_points),
               LAMBDA k : Gt(Rat(Abs(Iloc(pivot_points, k).target_price - current_price),
                                 current_price), <<3, 200>>),
               LAMBDA k : Prediction("pivot_" \o Iloc(pivot_points, k).type,
                              IF Iloc(pivot_points, k).target_price < current_price
                              THEN "down" ELSE "up",
                              Iloc(pivot_points, k).target_price,
                              _calculate_dynamic_confidence("support_resistance",
                                  PivotStrength(Iloc(pivot_points, k)),
                                  market.market_volatility, market.volume_factor,
                                  <<2, 5>>)))


(* price_pct_diff < 0.015 *)
SimilarPrice(pred, existing) ==
    RatLt(Rat(Abs(pred.target_price - existing.target_price), existing.target_price),
          <<3, 200>>)

(* existing.update(pred): the keys of pred with pred's values, the other   *)
(* keys of existing as they were                                           *)
Updated(existing, pred) == pred @@ existing

MergePrediction_first_kept(merged, pred) ==
    Bind({i \in 1..Len(merged) : SimilarPrice(pred, merged[i])},
         LAMBDA similar : IF similar = {} THEN Append(merged, pred) ELSE merged)

(* one pass of the loop of _merge_similar_predictions: a prediction near   *)
(* the first similar one already kept is written over it when it is more   *)
(* confident (existing.update(pred)), else it is dropped                   *)
MergePrediction(merged, pred) ==
    Bind({i \in 1..Len(merged) : SimilarPrice(pred, merged[i])},
         LAMBDA similar :
             IF similar = {} THEN Append(merged, pred)
             ELSE Bind(CHOOSE i \in similar : \A j \in similar : i <= j,
                       LAMBDA i : IF pred.confidence > merged[i].confidence
                                  THEN [merged EXCEPT ![i] = Updated(merged[i], pred)]
                                  ELSE merged))

(* Rest applied to the value of an expression that is computed first *)
Strict(value, Rest(_)) == CHOOSE r \in {Rest(v) : v \in {value}} : TRUE

(* the loop over predictions[a..b], in order: the first half, then the     *)
(* second half on what the first half left                                 *)
RECURSIVE MergePredictionsFrom(_, _, _, _)
MergePredictionsFrom(predictions, a, b, merged) ==
    IF a > b THEN merged
    ELSE IF a = b THEN MergePrediction(merged, predictions[a])
    ELSE Strict(MergePredictionsFrom(predictions, a, (a + b) \div 2, merged),
                LAMBDA first_half :
                    MergePredictionsFrom(predictions, (a + b) \div 2 + 1, b, first_half))

_merge_similar_predictions(predictions) ==
    MergePredictionsFrom(predictions, 1, Len(predictions), << >>)

(* list.sort(key=lambda x: x['confidence'], reverse=True): stable *)
SortedByConfidenceDesc(s) ==
    Bind([k \in 1..Len(s) |->
             Cardinality({j \in 1..Len(s) :
                 \/ s[j].confidence > s[k].confidence
                 \/ (s[j].confidence = s[k].confidence /\ j < k)})],
         LAMBDA before :
             [r \in 1..Len(s) |-> s[CHOOSE k \in 1..Len(s) : before[k] = r - 1]])

MaxKeyLevels == 12

(* merged_predictions.sort(...); return merged_predictions[:12] *)
TopByConfidence(merged) ==
    Bind(SortedByConfidenceDesc(merged), LAMBDA merged_predictions :
        SubSeq(merged_predictions, 1, Min2(Len(merged_predictions), MaxKeyLevels)))

_calculate_key_price_levels(market, analysis_results, cardinal, layout, pivot_points) ==
    TopByConfidence(_merge_similar_predictions(
        _calculate_gann_price_targets(market, Get(analysis_results, "gann", << >>),
                                      cardinal, layout)
        \o _calculate_volume_price_targets(market,
               Get(analysis_results, "volume_price", << >>), layout)
        \o _calculate_fibonacci_targets(market)
        \o _calculate_support_resistance_targets(market, pivot_points)))

-----------------------------------------------------------------------------
(* Specification SpecConfidence: every prediction model of the synthesizer *)
(* and every signal rule family of VolumePriceAnalyzer, applied to market  *)
(* statistics and analysis results drawn from small sets that include NaN  *)
(* and strengths outside [0, 1].                                           *)

Strengths == {NaN, <<0, 1>>, <<1, 2>>, <<1, 1>>, <<3, 1>>}
Volatilities == {NaN, <<0, 1>>, <<1, 2>>}
VolumeFactors == {NaN, <<0, 1>>, <<3, 1>>}
RowCounts == {3, 25}

(* sqrt(252) is 15.87...: the annualised volatility is taken as 16 times   *)
(* the daily one                                                           *)
Market(market_volatility, volume_factor, rows) ==
    [current_price |-> 1000, high_price |-> 1500, low_price |-> 500, rows |-> rows,
     market_volatility |-> market_volatility,
     volatility |-> RatMul(market_volatility, <<16, 1>>),
     volume_factor |-> volume_factor,
     volume_ratio_20 |-> volume_factor,
     volume_ratio_10 |-> IF rows > 20 THEN <<2, 1>> ELSE <<1, 1>>,
     volume_ratio_5 |-> <<1, 1>>]

(* key levels as GannWheel reports them, and as bare numbers *)
Supports(strength) ==
    <<[price |-> 950, strength |-> strength, type |-> "support"], [number |-> 900],
      [strength |-> strength], [price |-> 1050, strength |-> strength],
      [price |-> 850, strength |-> strength]>>

Resistances(strength) ==
    [i \in 1..10 |-> IF i % 2 = 1 THEN [number |-> 1000 + 20 * i]
                     ELSE [price |-> 1000 + 20 * i, strength |-> strength]]

CurrentSignals(strength) ==
    <<[type |-> "bottom", strength |-> strength], [type |-> "other", strength |-> strength],
      [type |-> "top", strength |-> strength]>>

PivotPoints ==
    <<[target_price |-> 800, type |-> "pivot_support", merged |-> 0],
      [target_price |-> 1010, type |-> "pivot_support", merged |-> 1],
      [target_price |-> 1200, type |-> "pivot_resistance", merged |-> 4]>>

AnalysisResults(strength) ==
    [gann |-> [key_levels |-> [key_supports |-> Supports(strength),
                               key_resistances |-> Resistances(strength)]],
     volume_price |-> [signals |-> [current_signals |-> CurrentSignals(strength)]]]

InitConfidence ==
    /\ pc = "ready"
    /\ \E strength \in Strengths, market_volatility \in Volatilities,
          volume_factor \in VolumeFactors, rows \in RowCounts,
          layout \in {"together", "apart"} :
         args = [market |-> Market(market_volatility, volume_factor, rows),
                 strength |-> strength, layout |-> layout]
    /\ ret = None
    /\ bars = NoTable /\ now = 0 /\ self = NoSelf /\ analysis_result = None
    /\ raised = "none" /\ stages_run = << >> /\ history = << >>

ConfidenceFrame ==
    UNCHANGED <<bars, now, self, analysis_result, stages_run, history, args>>

PredictionTypes ==
    {"gann_wheel_angle", "volume_breakout", "fibonacci", "pivot_support",
     "pivot_resistance", "support_resistance", "other"}

(* _calculate_dynamic_confidence called with the strength as it is *)
DynamicConfidence ==
    /\ pc = "ready"
    /\ \E prediction_type \in PredictionTypes, technical_alignment \in {<<2, 5>>, <<4, 5>>} :
         IF Raises_calculate_dynamic_confidence(args.strength, technical_alignment)
         THEN raised' = "ValueError" /\ ret' = None /\ pc' = "raised"
         ELSE /\ raised' = "none"
              /\ ret' = [predictions |->
                            <<Prediction(prediction_type, "up", args.market.current_price,
                                  _calculate_dynamic_confidence(prediction_type,
                                      args.strength, args.market.market_volatility,
                                      args.market.volume_factor, technical_alignment))>>]
              /\ pc' = "confidence"
    /\ ConfidenceFrame

Predicted(op, predictions) ==
    /\ pc = "ready"
    /\ ret' = [predictions |-> predictions]
    /\ pc' = op
    /\ raised' = "none"
    /\ ConfidenceFrame

GannPriceTargets ==
    \E cardinal \in BOOLEAN :
        Predicted("gann_price_targets",
                  _calculate_gann_price_targets(args.market,
                      AnalysisResults(args.strength).gann, cardinal, args.layout))

VolumePriceTargets ==
    Predicted("volume_price_targets",
              _calculate_volume_price_targets(args.market,
                  AnalysisResults(args.strength).volume_price, args.layout))

FibonacciTargets ==
    Predicted("fibonacci_targets", _calculate_fibonacci_targets(args.market))

SupportResistanceTargets ==
    Predicted("support_resistance_targets",
              _calculate_support_resistance_targets(args.market, PivotPoints))

KeyPriceLevels ==
    \E cardinal \in BOOLEAN :
        Predicted("key_price_levels",
                  _calculate_key_price_levels(args.market, AnalysisResults(args.strength),
                                              cardinal, args.layout, PivotPoints))


(* the stage dictionaries the four signal rule families read *)
RelationData(correlation, consistency) ==
    [current_correlation |-> correlation,
     consistency_analysis |-> [current_consistency |-> consistency]]

DivergenceData(kind, strength, days_since) ==
    [current_divergence |->
        [has_recent_divergence |-> TRUE, days_since_divergence |-> days_since,
         latest_divergence |-> [type |-> kind, strength |-> strength]]]

PatternData(strength, price_change) ==
    [current_patterns |->
        <<[pattern_type |-> "volume_breakout", strength |-> strength, start_date |-> 3],
          [pattern_type |-> "abnormal_volume_spike", strength |-> strength,
           start_date |-> 4, price_change |-> price_change],
          [pattern_type |-> "volume_decline", strength |-> strength]>>]

AbnormalData(strength, price_change) ==
    [recent_events |->
        [k \in 1..4 |-> [type |-> "volume_spike", ratio |-> RatAdd(strength, <<3, 1>>),
                         price_change |-> IF k % 2 = 0 THEN price_change
                                          ELSE RatSub(<<0, 1>>, price_change),
                         date |-> k]]]

(* the four rule families of _generate_trading_signals *)
TradingSignals ==
    /\ pc = "ready"
    /\ \E correlation \in {<<4, 5>>, <<-4, 5>>, NaN},
          kind \in {"top_divergence", "bottom_divergence"},
          days_since \in {0, 5, MaxSignalAgeDays, MaxSignalAgeDays + 1},
          price_change \in {<<1, 10>>, <<-1, 10>>} :
         ret' = [signals |->
                    _generate_relation_signals(Table(5, 1, << >>),
                        RelationData(correlation,
                                     IF Gt(correlation, <<0, 1>>) THEN <<4, 5>>
                                     ELSE <<1, 5>>))
                    \o _generate_divergence_signals(Table(5, 1, << >>),
                           DivergenceData(kind, args.strength, days_since))
                    \o _generate_pattern_signals(Table(5, 1, << >>),
                           PatternData(args.strength, price_change))
                    \o _generate_abnormal_volume_signals(Table(5, 1, << >>),
                           AbnormalData(args.strength, price_change))]
    /\ pc' = "trading_signals"
    /\ raised' = "none"
    /\ ConfidenceFrame

NextConfidence ==
    \/ DynamicConfidence
    \/ GannPriceTargets
    \/ VolumePriceTargets
    \/ FibonacciTargets
    \/ SupportResistanceTargets
    \/ KeyPriceLevels
    \/ TradingSignals

SpecConfidence == InitConfidence /\ [][NextConfidence]_vars

Confidences ==
    IF IsNone(ret) THEN {}
    ELSE IF "predictions" \in DOMAIN ret
    THEN {ret.predictions[k].confidence : k \in 1..Len(ret.predictions)}
    ELSE {}

SignalConfidences ==
    IF IsNone(ret) THEN {}
    ELSE IF "signals" \in DOMAIN ret
    THEN {ret.signals[k].confidence : k \in 1..Len(ret.signals)}
    ELSE {}

(* C2: every price prediction of _calculate_key_price_levels, whichever    *)
(* model produced it (Gann support, Gann resistance, wheel angle, volume   *)
(* divergence or breakout, volume-price memory, Fibonacci, pivot), has an  *)
(* integer confidence from 30 to 95, and every trading signal of the four  *)
(* rule families has a confidence from 0 to 1.                             *)
C2_ConfidenceInRange ==
    /\ pc \in {"confidence", "gann_price_targets", "volume_price_targets",
               "fibonacci_targets", "support_resistance_targets", "key_price_levels"}
          => Confidences \subseteq 30..95
    /\ pc = "trading_signals"
          => \A c \in SignalConfidences : RatLe(<<0, 1>>, c) /\ RatLe(c, <<1, 1>>) /\ c[2] > 0

(* the key levels of a market where a dynamic confidence was clamped at    *)
(* each end of the range                                                   *)
C2_Witness ==
    /\ pc = "key_price_levels"
    /\ Len(ret.predictions) = MaxKeyLevels
    /\ 95 \in Confidences
    /\ \E k \in 1..Len(ret.predictions) :
          /\ ret.predictions[k].type = "gann_wheel_angle"
          /\ ret.predictions[k].confidence < 95

-----------------------------------------------------------------------------
(* Specification SpecDivergence: _detect_top_divergence and                *)
(* _detect_bottom_divergence on lists of two or more consecutive pivots.   *)

MaxPivots == 3

PivotPrices == {10, 11}
PivotVolumes == {17, 20, 23, 84, 85, 100, 115, 116}

(* the pivot records of _find_price_extremes, one per day *)
PivotLists ==
    UNION {[1..n -> [price : PivotPrices, volume : PivotVolumes]] : n \in 2..MaxPivots}

DatedPivots(list) ==
    [k \in 1..Len(list) |-> [date |-> k, price |-> list[k].price, volume |-> list[k].volume]]

InitDivergence ==
    /\ pc = "ready"
    /\ \E list \in PivotLists : args = [pivots |-> DatedPivots(list)]
    /\ ret = None
    /\ bars = NoTable /\ now = 0 /\ self = NoSelf /\ analysis_result = None
    /\ raised = "none" /\ stages_run = << >> /\ history = << >>

DivergenceFrame ==
    UNCHANGED <<bars, now, self, analysis_result, raised, stages_run, history, args>>

DetectTopDivergence ==
    /\ pc = "ready"
    /\ ret' = [divergences |-> _detect_top_divergence(args.pivots)]
    /\ pc' = "top"
    /\ DivergenceFrame

DetectBottomDivergence ==
    /\ pc = "ready"
    /\ ret' = [divergences |-> _detect_bottom_divergence(args.pivots)]
    /\ pc' = "bottom"
    /\ DivergenceFrame

NextDivergence == DetectTopDivergence \/ DetectBottomDivergence

SpecDivergence == InitDivergence /\ [][NextDivergence]_vars

(* the days on which a divergence was reported, and that each was reported once *)
FlaggedDays == {ret.divergences[k]["date"] : k \in 1..Len(ret.divergences)}
FlaggedOnce == Cardinality(FlaggedDays) = Len(ret.divergences)

(* the days k >= 2 whose pivot and the pivot before it satisfy Test *)
DaysWhere(Test(_, _)) ==
    {k \in 2..Len(args.pivots) : Test(args.pivots[k], args.pivots[k - 1])}

HigherOnLessVolume(current, previous) ==
    current.price > previous.price /\ 100 * current.volume < 85 * previous.volume

LowerOnMoreVolume(current, previous) ==
    current.price < previous.price /\ 100 * current.volume > 115 * previous.volume

LowerOnLimitVolume(current, previous) ==
    current.price < previous.price /\ 100 * current.volume = 115 * previous.volume

TopFlaggedExactly ==
    pc = "top" => FlaggedOnce /\ FlaggedDays = DaysWhere(HigherOnLessVolume)

(* C11 as stated: with t = 0.15 a top divergence is flagged for two         *)
(* consecutive pivot highs exactly when the second price is higher and its  *)
(* volume is below (1 - t) times the first's (none at (1 - t) times or      *)
(* more, one at (1 - t - 0.01) times), and a bottom divergence exactly when *)
(* the second price is lower and its volume is above (1 + t) times the      *)
(* first's.                                                                 *)
C11_DivergenceExactlyAtThreshold ==
    /\ TopFlaggedExactly
    /\ pc = "bottom" => FlaggedOnce /\ FlaggedDays = DaysWhere(LowerOnMoreVolume)

(* C11 amended: the top half as stated; a bottom divergence is flagged      *)
(* whenever the second price is lower and its volume is above (1 + t) times *)
(* the first's, never when the price is not lower or the volume is below    *)
(* (1 + t) times, and at exactly (1 + t) times it may be flagged (the       *)
(* floating-point product can round below the volume).                      *)
C11_DivergenceAtThreshold ==
    /\ TopFlaggedExactly
    /\ pc = "bottom" =>
          /\ FlaggedOnce
          /\ DaysWhere(LowerOnMoreVolume) \subseteq FlaggedDays
          /\ FlaggedDays \subseteq DaysWhere(LowerOnMoreVolume) \cup DaysWhere(LowerOnLimitVolume)

(* two highs, the second higher at 0.84 times the volume, flagged once,     *)
(* and a third pivot that was not flagged                                   *)
C11_Witness ==
    /\ pc = "top"
    /\ Len(args.pivots) = 3
    /\ args.pivots[1].volume = 100 /\ args.pivots[2].volume = 84
    /\ args.pivots[2].price > args.pivots[1].price
    /\ FlaggedDays = {2}

-----------------------------------------------------------------------------
(* Specification SpecTwoHighs: _analyze_divergence on series with a high   *)
(* on bar 30 and a high on bar 59.                                         *)

(* the positions of the two highs of the scenario *)
HighBars == <<30, 59>>
FirstHighBar == HighBars[1]
SecondHighBar == HighBars[2]

(* the bar at `position` replaced *)
WithBar(data, position, bar) ==
    [data EXCEPT !.rows[position + 1] = [date |-> position] @@ bar]

(* a lower high on heavy volume between the two highs *)
WithBump(data, position) ==
    WithBar(data, position,
            [Open |-> 1000, High |-> Col(data, "High", position) + 10,
             Low |-> Col(data, "Low", position), Close |-> 1000, Volume |-> 80])

TwoHighPairs == {<<"peak", "quiet_peak">>, <<"peak", "peak">>, <<"quiet_peak", "peak">>,
                 <<"none", "quiet_peak">>}
SeriesLengths == {60, 62, 64, 65, 66, 70, 80}

TwoHighTables ==
    {Table(n, drift, Events(FirstHighBar, SecondHighBar, pair, 0, "none")) :
        n \in SeriesLengths, drift \in {0, 1}, pair \in TwoHighPairs}
    \cup {WithBump(Table(n, 1, Events(FirstHighBar, SecondHighBar, pair, 0, "none")), 45) :
             n \in SeriesLengths, pair \in TwoHighPairs}

InitTwoHighs ==
    /\ pc = "ready"
    /\ bars \in TwoHighTables
    /\ args = [current_correlation |-> NaN, coordination_score |-> NaN]
    /\ ret = None
    /\ now = 0 /\ self = InitSelf /\ analysis_result = None
    /\ raised = "none" /\ stages_run = << >> /\ history = << >>

AnalyzeDivergence ==
    /\ pc = "ready"
    /\ ret' = _analyze_divergence(bars)
    /\ pc' = "divergence_analysis"
    /\ UNCHANGED <<bars, now, self, analysis_result, raised, stages_run, history, args>>

NextTwoHighs == AnalyzeDivergence

SpecTwoHighs == InitTwoHighs /\ [][NextTwoHighs]_vars

HighOf(i) == bars.rows[i + 1].High
VolumeOf(i) == bars.rows[i + 1].Volume

(* bar i is a high pivot of the series: at least 5 bars from both ends and *)
(* no higher bar within 5 bars on either side                              *)
HighPivotAt(i) ==
    /\ i >= PivotWindow /\ i + PivotWindow < Len0(bars)
    /\ \A j \in (i - PivotWindow)..(i + PivotWindow) : HighOf(j) <= HighOf(i)

NewHighOnHalfVolume ==
    /\ \A i \in 0..(SecondHighBar - 1) : HighOf(i) < HighOf(SecondHighBar)
    /\ \A i \in 0..(SecondHighBar - 1) : i # FirstHighBar => HighOf(i) < HighOf(FirstHighBar)
    /\ 2 * VolumeOf(SecondHighBar) = VolumeOf(FirstHighBar)

(* a top divergence dated bar 59 with strength exactly 0.5 is recorded, once *)
RecordedAtSecondHigh ==
    /\ DOMAIN ret # {}
    /\ Cardinality({k \in 1..Len(ret.divergences) :
                       /\ ret.divergences[k].type = "top_divergence"
                       /\ ret.divergences[k]["date"] = SecondHighBar
                       /\ ret.divergences[k].strength = <<1, 2>>}) = 1
    /\ \A k \in 1..Len(ret.divergences) :
          ret.divergences[k]["date"] = SecondHighBar
             => ret.divergences[k].strength = <<1, 2>>

(* C12 as stated: when bar 59 is a new 60-bar high on exactly half the     *)
(* volume of the prior high on bar 30, a top_divergence dated bar 59 with  *)
(* strength exactly 0.5 is recorded.                                       *)
C12_NewHighRecorded ==
    (pc = "divergence_analysis" /\ NewHighOnHalfVolume) => RecordedAtSecondHigh

(* C12 amended: the same, when bars 30 and 59 are consecutive high pivots   *)
(* of the series (bar 59 has 5 later bars, none of them higher, and no bar  *)
(* between 30 and 59 is a high pivot).                                      *)
C12_ConsecutivePivotsRecorded ==
    (/\ pc = "divergence_analysis"
     /\ NewHighOnHalfVolume
     /\ HighPivotAt(FirstHighBar) /\ HighPivotAt(SecondHighBar)
     /\ \A i \in (FirstHighBar + 1)..(SecondHighBar - 1) : ~HighPivotAt(i))
        => RecordedAtSecondHigh

C12_Witness ==
    /\ pc = "divergence_analysis"
    /\ NewHighOnHalfVolume
    /\ HighPivotAt(FirstHighBar) /\ HighPivotAt(SecondHighBar)
    /\ \A i \in (FirstHighBar + 1)..(SecondHighBar - 1) : ~HighPivotAt(i)
    /\ RecordedAtSecondHigh

-----------------------------------------------------------------------------
(* Specification SpecFlat: VolumePriceAnalyzer.analyze_stock on series     *)
(* whose bars are all the same.                                            *)

FlatTable(n, price, spread, volume) ==
    [columns |-> RequiredColumns,
     rows |-> [i \in 1..n |->
                 [date |-> i - 1, Open |-> price, High |-> price + spread,
                  Low |-> price - spread, Close |-> price, Volume |-> volume]]]

FlatLengths == {30, 61, 100, 101}
FlatPrices == {5, 10, 100, 1000}
FlatVolumes == {1, 20, 50, 500}

FlatTables ==
    {FlatTable(n, price, spread, volume) :
        n \in FlatLengths, price \in FlatPrices, spread \in {0, 1}, volume \in FlatVolumes}

InitFlat ==
    /\ pc = "ready"
    /\ bars \in FlatTables
    /\ args \in Statistics(bars)
    /\ now = 0
    /\ self = InitSelf
    /\ analysis_result = None /\ raised = "none" /\ stages_run = << >>
    /\ history = << >> /\ ret = None

AnalyzeFlat ==
    /\ pc = "ready"
    /\ Receive("VolumePriceAnalyzer", VP_analyze_stock("SYM", bars, now))
    /\ UNCHANGED <<bars, now, self, args, ret>>

NextFlat == AnalyzeFlat

SpecFlat == InitFlat /\ [][NextFlat]_vars

(* 100 bars with one Open, one High, one Low, one Close and one Volume *)
FlatHundred ==
    /\ Len0(bars) = 100
    /\ \A i \in 1..Len0(bars), c \in RequiredColumns : bars.rows[i][c] = bars.rows[1][c]

NoDivergenceNoEvent ==
    /\ Get(analysis_result.divergence_analysis, "total_divergences", -1) = 0
    /\ Get(analysis_result.divergence_analysis, "divergences", None) = << >>
    /\ Get(analysis_result.abnormal_volume, "abnormal_events", None) = << >>
    /\ Get(analysis_result.abnormal_volume, "spike_count", -1) = 0
    /\ Get(analysis_result.abnormal_volume, "drop_count", -1) = 0

Sideways == Get(analysis_result.trend_analysis, "overall_trend", "") = "sideways"

CoordinationOf(result) == Get(result.price_volume_coordination, "current_coordination", << >>)

(* C13: on a flat series of 100 bars analyze_stock reports zero             *)
(* divergences, zero abnormal-volume events, a current coordination score   *)
(* of 0 with coordination level 'fair', and overall_trend 'sideways'.       *)
C13_FlatSeriesNeutral ==
    (pc = "returned" /\ FlatHundred) =>
        /\ NoDivergenceNoEvent
        /\ Sideways
        /\ Get(CoordinationOf(analysis_result), "score", NaN) = <<0, 1>>
        /\ Get(CoordinationOf(analysis_result), "level", "") = "fair"

(* what does hold on a flat series of 100 bars: no divergence, no abnormal  *)
(* volume event, a sideways trend; the coordination score is NaN and its    *)
(* level 'very_poor'                                                        *)
C13_FlatSeriesQuiet ==
    (pc # "ready" /\ FlatHundred) =>
        /\ pc = "returned"
        /\ NoDivergenceNoEvent
        /\ Sideways
        /\ Get(CoordinationOf(analysis_result), "score", <<0, 1>>) = NaN
        /\ Get(CoordinationOf(analysis_result), "level", "") = "very_poor"

-----------------------------------------------------------------------------
(* Specification SpecKeyLevels: the classification of the merged price     *)
(* levels into key supports and key resistances around the current close   *)
(* (_calculate_key_levels, after the three level lists are concatenated).  *)

KeyLevelCount == 5

IsSupport_inclusive(level, current_price) == RatLe(level.price, current_price)

(* level['price'] < current_price *)
IsSupport(level, current_price) == Lt(level.price, current_price)

(* level['price'] > current_price *)
IsResistance(level, current_price) == Gt(level.price, current_price)

(* list.sort(key=...): stable, ascending by the key *)
SortedByDistance(levels, Distance(_)) ==
    Bind([k \in 1..Len(levels) |->
             Cardinality({j \in 1..Len(levels) :
                 \/ RatLt(Distance(levels[j]), Distance(levels[k]))
                 \/ (Distance(levels[j]) = Distance(levels[k]) /\ j < k)})],
         LAMBDA before :
             [r \in 1..Len(levels) |-> levels[CHOOSE k \in 1..Len(levels) : before[k] = r - 1]])

FirstLevels(levels, n) == SubSeq(levels, 1, IF Len(levels) < n THEN Len(levels) ELSE n)

(* _calculate_key_levels from `unique_levels = ...` on *)
ClassifyKeyLevels(all_levels, current_price) ==
    Bind(_merge_similar_levels(all_levels, Tolerance), LAMBDA unique_levels :
    Bind(SortedByDistance(SelectSeq(unique_levels, LAMBDA level : IsSupport(level, current_price)),
                          LAMBDA x : RatSub(current_price, x.price)), LAMBDA supports :
    Bind(SortedByDistance(SelectSeq(unique_levels, LAMBDA level : IsResistance(level, current_price)),
                          LAMBDA x : RatSub(x.price, current_price)), LAMBDA resistances :
        [current_price |-> current_price,
         key_supports |-> FirstLevels(supports, KeyLevelCount),
         key_resistances |-> FirstLevels(resistances, KeyLevelCount),
         strongest_support |-> IF supports # << >> THEN supports[1] ELSE None,
         strongest_resistance |-> IF resistances # << >> THEN resistances[1] ELSE None])))

KeyLevelPrices == {80, 84, 88, 92, 96, 100, 101, 104, 108, 112}
ClosePrices == {92, 100, 101, 103}
ListOrders == {1, 37}

LevelAt(price) ==
    [price |-> RatInt(price),
     type |-> IF price % 8 = 0 THEN "pivot_high"
              ELSE IF price % 2 = 0 THEN "gann_square" ELSE "fibonacci_retracement",
     strength |-> Rat(1 + (price % 5), 5)]

(* the levels of the chosen prices, listed in the order of (price * order) % 41 *)
LevelListOf(prices, order) ==
    [r \in 1..Cardinality(prices) |->
        LevelAt(CHOOSE p \in prices :
                    Cardinality({q \in prices : (q * order) % 41 < (p * order) % 41}) = r - 1)]

InitKeyLevels ==
    /\ pc = "ready"
    /\ \E prices \in SUBSET KeyLevelPrices : \E order \in ListOrders : \E close \in ClosePrices :
           args = [all_levels |-> LevelListOf(prices, order), current_price |-> RatInt(close)]
    /\ ret = None
    /\ bars = NoTable /\ now = 0 /\ self = NoSelf /\ analysis_result = None
    /\ raised = "none" /\ stages_run = << >> /\ history = << >>

CalculateKeyLevels ==
    /\ pc = "ready"
    /\ ret' = ClassifyKeyLevels(args.all_levels, args.current_price)
    /\ pc' = "key_levels"
    /\ MergeFrame

NextKeyLevels == CalculateKeyLevels

SpecKeyLevels == InitKeyLevels /\ [][NextKeyLevels]_vars

(* the merged levels strictly below / strictly above the close *)
MergedBelow ==
    SelectSeq(_merge_similar_levels(args.all_levels, Tolerance),
              LAMBDA level : RatLt(level.price, args.current_price))
MergedAbove ==
    SelectSeq(_merge_similar_levels(args.all_levels, Tolerance),
              LAMBDA level : RatLt(args.current_price, level.price))

AbsDistance(level) ==
    IF RatLt(level.price, args.current_price) THEN RatSub(args.current_price, level.price)
    ELSE RatSub(level.price, args.current_price)

(* `key` holds min(5, |side|) levels of `side`, nearest first, and no level *)
(* of `side` left out is nearer than one that is in                        *)
NearestOf(key, side) ==
    /\ Len(key) = (IF Len(side) < KeyLevelCount THEN Len(side) ELSE KeyLevelCount)
    /\ \A k \in 1..Len(key) : \E j \in 1..Len(side) : side[j] = key[k]
    /\ \A k \in 1..(Len(key) - 1) : RatLe(AbsDistance(key[k]), AbsDistance(key[k + 1]))
    /\ \A j \in 1..Len(side) :
           (\A k \in 1..Len(key) : key[k] # side[j])
               => \A k \in 1..Len(key) : RatLe(AbsDistance(key[k]), AbsDistance(side[j]))

FirstOrNone(key) == IF key = << >> THEN None ELSE key[1]

(* C14: every key support is priced strictly below the current close and  *)
(* every key resistance strictly above it; each list has at most five      *)
(* entries, ordered by increasing distance from the close, and holds the   *)
(* nearest merged levels of its side; strongest_support and                *)
(* strongest_resistance are the first entries, or None for an empty list.  *)
C14_KeyLevelsNearestFirst ==
    pc = "key_levels" =>
        /\ \A k \in 1..Len(ret.key_supports) : RatLt(ret.key_supports[k].price, ret.current_price)
        /\ \A k \in 1..Len(ret.key_resistances) : RatLt(ret.current_price, ret.key_resistances[k].price)
        /\ Len(ret.key_supports) <= KeyLevelCount /\ Len(ret.key_resistances) <= KeyLevelCount
        /\ NearestOf(ret.key_supports, MergedBelow)
        /\ NearestOf(ret.key_resistances, MergedAbove)
        /\ ret.strongest_support = FirstOrNone(ret.key_supports)
        /\ ret.strongest_resistance = FirstOrNone(ret.key_resistances)

(* more than five merged levels below the close, some above, one at it *)
C14_Witness ==
    /\ pc = "key_levels"
    /\ Len(MergedBelow) > KeyLevelCount
    /\ Len(ret.key_supports) = KeyLevelCount
    /\ ret.key_resistances # << >>
    /\ \E k \in 1..Len(args.all_levels) : args.all_levels[k].price = args.current_price

-----------------------------------------------------------------------------
(* Specification SpecFilter: _filter_and_optimize_signals applied to every *)
(* short list of raw signals.                                              *)

MaxSignals == 3

SignalDates == {1, 2}
SignalTypes == {"buy", "sell"}
(* <<source, strength, confidence>> *)
SignalGrades ==
    {<<"volume_breakout", <<9, 10>>, <<2, 5>>>>,
     <<"top_divergence", <<1, 2>>, <<3, 5>>>>,
     <<"volume_price_relation", <<3, 10>>, <<1, 2>>>>,
     <<"massive_volume_spike_up", <<1, 5>>, <<3, 4>>>>}

RawSignals ==
    {Signal(d, t, g[1], g[2], g[3]) : d \in SignalDates, t \in SignalTypes, g \in SignalGrades}

InitFilter ==
    /\ pc = "ready"
    /\ \E n \in 0..MaxSignals : \E signals \in [1..n -> RawSignals] : args = [signals |-> signals]
    /\ ret = None
    /\ bars = NoTable /\ now = 0 /\ self = NoSelf /\ analysis_result = None
    /\ raised = "none" /\ stages_run = << >> /\ history = << >>

FilterSignals ==
    /\ pc = "ready"
    /\ ret' = _filter_and_optimize_signals(args.signals)
    /\ pc' = "filtered"
    /\ MergeFrame

NextFilter == FilterSignals

SpecFilter == InitFilter /\ [][NextFilter]_vars

MeetsThresholds(sig) == RatLe(<<1, 2>>, sig.confidence) /\ RatLe(<<3, 10>>, sig.strength)

(* (a) one signal per (date, signal_type), (b) none of the raw signals of  *)
(* its pair is stronger, (c) both thresholds met                           *)
DedupedAndFiltered ==
    /\ \A i, j \in 1..Len(ret) : SameKey(ret[i], ret[j]) => i = j
    /\ \A i \in 1..Len(ret) : \A k \in 1..Len(args.signals) :
           SameKey(ret[i], args.signals[k]) => RatLe(args.signals[k].strength, ret[i].strength)
    /\ \A i \in 1..Len(ret) : MeetsThresholds(ret[i])

(* the raw signal that stands for the pair of args.signals[k] after the    *)
(* de-duplication: the first of the strongest of the pair                  *)
StrongestOfPair(k) ==
    args.signals[CHOOSE m \in 1..Len(args.signals) :
        /\ SameKey(args.signals[m], args.signals[k])
        /\ \A j \in 1..Len(args.signals) : SameKey(args.signals[j], args.signals[k]) =>
              /\ RatLe(args.signals[j].strength, args.signals[m].strength)
              /\ (j < m => RatLt(args.signals[j].strength, args.signals[m].strength))]

-----------------------------------------------------------------------------
(* Specification SpecRecommend: _generate_recommendation applied to no     *)
(* current signal and to every current signal around the cutoffs, with     *)
(* several analysis results.                                               *)

CurrentStrengths == {<<3, 10>>, <<3, 5>>, <<61, 100>>, <<4, 5>>, <<81, 100>>, <<1, 1>>}
CurrentConfidences == {<<1, 2>>, <<4, 5>>, <<81, 100>>}

StrongestSignals ==
    {None} \cup {Signal(1, t, "volume_breakout", st, c) :
                    t \in SignalTypes, st \in CurrentStrengths, c \in CurrentConfidences}

ScoredResults ==
    {<< >>,
     [comprehensive_score |-> [comprehensive_score |-> <<80, 1>>, rating |-> "A"]],
     [comprehensive_score |-> [comprehensive_score |-> <<35, 1>>, rating |-> "D"]]}

InitRecommend ==
    /\ pc = "ready"
    /\ \E current_signal \in StrongestSignals : \E result \in ScoredResults :
           args = [current_signal |-> current_signal, analysis_result |-> result]
    /\ ret = None
    /\ bars = NoTable /\ now = 0 /\ self = NoSelf /\ analysis_result = None
    /\ raised = "none" /\ stages_run = << >> /\ history = << >>

GenerateRecommendation ==
    /\ pc = "ready"
    /\ ret' = _generate_recommendation(args.current_signal, args.analysis_result)
    /\ pc' = "recommended"
    /\ MergeFrame

NextRecommend == GenerateRecommendation

SpecRecommend == InitRecommend /\ [][NextRecommend]_vars

(* the action the cutoffs give for a signal *)
GradeOf(sig) ==
    IF RatLt(<<4, 5>>, sig.strength) /\ RatLt(<<4, 5>>, sig.confidence) THEN "strong"
    ELSE IF RatLt(<<3, 5>>, sig.strength) THEN "plain" ELSE "weak"

ActionOf(sig) ==
    CASE GradeOf(sig) = "strong" -> IF sig.signal_type = "buy" THEN "strong_buy" ELSE "strong_sell"
      [] GradeOf(sig) = "plain" -> IF sig.signal_type = "buy" THEN "buy" ELSE "sell"
      [] OTHER -> IF sig.signal_type = "buy" THEN "weak_buy" ELSE "weak_sell"

ActionFollowsSignal ==
    /\ ret.action = "hold" <=> IsNone(args.current_signal)
    /\ IsNone(args.current_signal) => ret.risk_level = "medium" /\ ret.confidence = <<1, 2>>
    /\ ~ IsNone(args.current_signal) => ret.action = ActionOf(args.current_signal)

WithoutAdvice(recommendation) ==
    [k \in DOMAIN recommendation \ {"score_based_advice"} |-> recommendation[k]]

(* C16 as stated: the recommendation is determined by the current signal   *)
(* alone (it is the same whatever the analysis result), 'hold' exactly     *)
(* without a current signal, and otherwise graded by the cutoffs.          *)
C16_RecommendationFromSignalOnly ==
    pc = "recommended" =>
        /\ ret = _generate_recommendation(args.current_signal, << >>)
        /\ ActionFollowsSignal

(* C16: action, confidence, risk level, reason, source and date of the     *)
(* recommendation are determined by the current signal alone: 'hold'       *)
(* (risk medium, confidence 0.5) exactly without a current signal,         *)
(* otherwise the side of the signal graded strong iff strength > 0.8 and   *)
(* confidence > 0.8, else plain iff strength > 0.6, else weak; its         *)
(* score_based_advice quotes the comprehensive score and rating of the     *)
(* analysis result.                                                        *)
C16_ActionFromSignalOnly ==
    pc = "recommended" =>
        /\ WithoutAdvice(ret) = WithoutAdvice(_generate_recommendation(args.current_signal, << >>))
        /\ ActionFollowsSignal
        /\ ret.score_based_advice =
              [score |-> Get(Get(args.analysis_result, "comprehensive_score", << >>),
                             "comprehensive_score", <<50, 1>>),
               rating |-> Get(Get(args.analysis_result, "comprehensive_score", << >>), "rating", "C")]

(* a sell signal of strength exactly 0.6 under a rated analysis: weak_sell *)
C16_Witness ==
    /\ pc = "recommended"
    /\ ~ IsNone(args.current_signal)
    /\ args.current_signal.strength = <<3, 5>>
    /\ args.analysis_result # << >>
    /\ ret.action = "weak_sell"

-----------------------------------------------------------------------------
(* The current signal of a volume-price analysis (specification Spec).     *)

LastBarDate == CHOOSE d \in {bars.rows[k]["date"] : k \in 1..Len0(bars)} :
                   \A k \in 1..Len0(bars) : bars.rows[k]["date"] <= d

(* the filtered signals dated within the five days before the last bar *)
InLastFiveDays(sig) == sig["date"] >= LastBarDate - RecentSignalDays

SignalsReturned(call) == Returns(call) /\ "current_signal" \in DOMAIN call.result.trading_signals

C17_CurrentSignalNearLastSignal ==
    \A call \in CallsOf("VolumePriceAnalyzer") :
        SignalsReturned(call) =>
            LET signals == call.result.trading_signals
                filtered == signals.filtered_signals
                recent == SelectSeq(filtered,
                              LAMBDA sig : sig["date"] >= filtered[Len(filtered)]["date"]
                                                            - RecentSignalDays)
            IN  /\ IsNone(signals.current_signal) <=> filtered = << >>
                /\ IsNone(signals.current_signal) <=> signals.recommendation.action = "hold"
                /\ ~ IsNone(signals.current_signal) =>
                       /\ \E k \in 1..Len(recent) : recent[k] = signals.current_signal
                       /\ \A k \in 1..Len(recent) :
                              RatLe(SignalScore(recent[k]), SignalScore(signals.current_signal))

-----------------------------------------------------------------------------
(* The groups of _merge_similar_levels (specification SpecMerge).          *)

SortedLevels == SortedByPrice(args.levels)

(* the positions of the sorted list at which a group begins: the first,    *)
(* and every level that is not within the tolerance of the level before it *)
GroupStarts ==
    {i \in 1..Len(SortedLevels) :
        i = 1 \/ ~ RatLt(RatDiv(RatAbs(RatSub(SortedLevels[i].price, SortedLevels[i - 1].price)),
                                SortedLevels[i - 1].price), Tolerance)}

(* the members of the group that begins at position i *)
GroupAt(i) ==
    SubSeq(SortedLevels, i,
           (CHOOSE j \in (GroupStarts \cup {Len(SortedLevels) + 1}) :
               j > i /\ \A m \in GroupStarts : m > i => j <= m) - 1)

(* the position at which the k-th group begins *)
StartOfGroup(k) == CHOOSE i \in GroupStarts : Cardinality({m \in GroupStarts : m < i}) = k - 1

MeanOf(values) == RatDiv(RatSum(values), RatInt(Len(values)))

IsRecordOf(record, group) ==
    /\ record.price = MeanOf([m \in 1..Len(group) |-> group[m].price])
    /\ record.strength = MeanOf([m \in 1..Len(group) |-> group[m].strength])
    /\ record.count = Len(group)
    /\ IF \A m \in 1..Len(group) : group[m].type = group[1].type
       THEN record.type = group[1].type ELSE record.type = "combined"

RECURSIVE SumOfCounts(_)
SumOfCounts(records) ==
    IF records = << >> THEN 0 ELSE Head(records).count + SumOfCounts(Tail(records))

(* C18: the levels are scanned in ascending price order and a level joins  *)
(* the open group exactly when its relative distance to the last member of *)
(* that group is below the tolerance; each group becomes one record with   *)
(* the mean price, the mean strength, the common type or 'combined', and   *)
(* the number of members as count; the counts sum to the number of input   *)
(* levels.                                                                 *)
C18_GroupsChainedAndAveraged ==
    pc = "merged" =>
        /\ Len(ret.merged) = Cardinality(GroupStarts)
        /\ \A k \in 1..Len(ret.merged) : IsRecordOf(ret.merged[k], GroupAt(StartOfGroup(k)))
        /\ SumOfCounts(ret.merged) = Len(args.levels)

(* three levels chained into one group that spans the whole tolerance from *)
(* its first member, of mixed types                                        *)
C18_Witness ==
    /\ pc = "merged"
    /\ Len(args.levels) = 3 /\ Len(ret.merged) = 1
    /\ ret.merged[1].count = 3 /\ ret.merged[1].type = "combined"
    /\ ~ RatLt(RatDiv(RatSub(SortedLevels[3].price, SortedLevels[1].price), SortedLevels[1].price),
               Tolerance)

-----------------------------------------------------------------------------
(* Specification SpecPredictions: _merge_similar_predictions on a list of  *)
(* candidates, then the ranking of _calculate_key_price_levels on what the *)
(* merge returned.  The lists are the short ones and the ones that leave   *)
(* more than twelve candidates after the merge.                            *)

MaxCandidates == 3

(* target prices in tenths: three within 2.4% of each other, the others    *)
(* more than 2% apart                                                      *)
CandidatePrices ==
    <<1000, 1024, 1012, 1045, 1070, 1095, 1120, 1146, 1172, 1199, 1227, 1255, 1284, 1314, 1345>>
ListRotations == {1, 5, 16}
ConfidenceSchemes == {0, 1, 2}

CandidateConfidence(i, scheme) ==
    CASE scheme = 0 -> 70
      [] scheme = 1 -> 30 + ((i * 7) % 13) * 5
      [] OTHER -> 95 - ((i * 7) % 13) * 5

(* gann candidates carry gann_details, volume candidates volume_details *)
Candidate(i, scheme) ==
    Prediction(<<"gann_wheel_angle", "volume_breakout", "fibonacci">>[(i % 3) + 1],
               IF CandidatePrices[i] > 1100 THEN "up" ELSE "down",
               CandidatePrices[i], CandidateConfidence(i, scheme))
    @@ (CASE i % 3 = 0 -> [gann_details |-> i]
          [] i % 3 = 1 -> [volume_details |-> i]
          [] OTHER -> << >>)

(* the candidates of the chosen positions, listed in the order of          *)
(* (position * rotation) % 17                                              *)
CandidateList(chosen, rotation, scheme) ==
    [r \in 1..Cardinality(chosen) |->
        Candidate(CHOOSE i \in chosen :
                      Cardinality({j \in chosen : (j * rotation) % 17 < (i * rotation) % 17}) = r - 1,
                  scheme)]

CandidateChoices ==
    {chosen \in SUBSET (1..Len(CandidatePrices)) :
        \/ Cardinality(chosen) <= MaxCandidates
        \/ Cardinality(chosen) >= Len(CandidatePrices) - 1}

InitPredictions ==
    /\ pc = "ready"
    /\ \E chosen \in CandidateChoices : \E rotation \in ListRotations :
       \E scheme \in ConfidenceSchemes :
           args = [predictions |-> CandidateList(chosen, rotation, scheme)]
    /\ ret = None
    /\ bars = NoTable /\ now = 0 /\ self = NoSelf /\ analysis_result = None
    /\ raised = "none" /\ stages_run = << >> /\ history = << >>

MergeSimilarPredictions ==
    /\ pc = "ready"
    /\ ret' = [merged |-> _merge_similar_predictions(args.predictions)]
    /\ pc' = "merged"
    /\ MergeFrame

RankPredictions ==
    /\ pc = "merged"
    /\ ret' = [merged |-> ret.merged, key_levels |-> TopByConfidence(ret.merged)]
    /\ pc' = "ranked"
    /\ MergeFrame

NextPredictions == MergeSimilarPredictions \/ RankPredictions

SpecPredictions == InitPredictions /\ [][NextPredictions]_vars

Candidates == Elements(args.predictions)

CoreOf(pred) ==
    [target_price |-> pred.target_price, confidence |-> pred.confidence,
     type |-> pred.type, direction |-> pred.direction]

(* two candidates alone: the second is merged into the first exactly when  *)
(* it is within 1.5% of it, and then the more confident of the two stands, *)
(* the first on a tie                                                      *)
PairMerged ==
    Len(args.predictions) = 2 =>
        LET first == args.predictions[1]
            second == args.predictions[2]
        IN  IF (second.target_price - first.target_price) * 200 < 3 * first.target_price
               /\ (first.target_price - second.target_price) * 200 < 3 * first.target_price
            THEN /\ Len(ret.merged) = 1
                 /\ CoreOf(ret.merged[1]) =
                       CoreOf(IF second.confidence > first.confidence THEN second ELSE first)
            ELSE ret.merged = args.predictions

HighestConfidenceSurvives ==
    \A p \in Candidates : \E k \in 1..Len(ret.merged) : ret.merged[k].confidence >= p.confidence

(* at most twelve, by non-increasing confidence, none of the merged        *)
(* candidates left out more confident than one that is in                  *)
TopTwelve ==
    pc = "ranked" =>
        /\ Len(ret.key_levels) = Min2(Len(ret.merged), MaxKeyLevels)
        /\ \A k \in 1..(Len(ret.key_levels) - 1) :
               ret.key_levels[k].confidence >= ret.key_levels[k + 1].confidence
        /\ \A k \in 1..Len(ret.key_levels) : ret.key_levels[k] \in Elements(ret.merged)
        /\ \A m \in Elements(ret.merged) :
               m \notin Elements(ret.key_levels)
                   => \A k \in 1..Len(ret.key_levels) : ret.key_levels[k].confidence >= m.confidence

WithinOfEachOther(a, b) == SimilarPrice(a, b) \/ SimilarPrice(b, a)

(* C20: no two predictions returned by _merge_similar_predictions have     *)
(* target prices within 1.5% of each other.                                *)
C20_NoTwoWithinTolerance ==
    pc = "merged" =>
        \A i, j \in 1..Len(ret.merged) : i # j => ~ WithinOfEachOther(ret.merged[i], ret.merged[j])

-----------------------------------------------------------------------------
(* Which confidences of the synthesizer follow the market (specification   *)
(* SpecConfidence).                                                        *)

ModelOps ==
    {"gann_price_targets", "volume_price_targets", "fibonacci_targets",
     "support_resistance_targets"}

(* the predictions of one model for a market *)
ModelOutput(op, market, cardinal) ==
    CASE op = "gann_price_targets" ->
            _calculate_gann_price_targets(market, AnalysisResults(args.strength).gann,
                                          cardinal, args.layout)
      [] op = "volume_price_targets" ->
            _calculate_volume_price_targets(market, AnalysisResults(args.strength).volume_price,
                                            args.layout)
      [] op = "fibonacci_targets" -> _calculate_fibonacci_targets(market)
      [] OTHER -> _calculate_support_resistance_targets(market, PivotPoints)

(* the market of the state with another volatility and volume factor *)
OtherMarkets ==
    {Market(market_volatility, volume_factor, args.market.rows) :
        market_volatility \in Volatilities \ {NaN}, volume_factor \in VolumeFactors \ {NaN}}

OrdinaryMarket ==
    /\ ~ IsNaN(args.market.market_volatility) /\ ~ IsNaN(args.market.volume_factor)
    /\ args.strength \in {<<0, 1>>, <<1, 2>>, <<1, 1>>}

(* the k-th prediction of the model gets another confidence in some other  *)
(* market in which the model makes as many predictions, the k-th of them   *)
(* of the same type for the same target                                    *)
FollowsMarket(k, cardinal) ==
    \E market \in OtherMarkets :
        LET other == ModelOutput(pc, market, cardinal)
        IN  /\ Len(other) = Len(ret.predictions)
            /\ other[k].type = ret.predictions[k].type
            /\ other[k].target_price = ret.predictions[k].target_price
            /\ other[k].confidence # ret.predictions[k].confidence

(* the predictions of the models whose confidence is written in the code   *)
(* as a number or a rank                                                   *)
IsStaticKind(pred) ==
    \/ pred.type \in {"gann_resistance", "volume_price_memory"}
    \/ \E j \in 1..3 : pred.type = "volume_breakout_level_" \o ToString(j)
    \/ \E k \in 1..Len(fib_levels) : pred.type = "fibonacci_" \o ToString(k)
    \/ \E point \in Elements(PivotPoints) : pred.type = "pivot_" \o point.type

(* C21: the confidence of every candidate of every model is computed from  *)
(* the market (volatility, volume factor), never a number fixed in the     *)
(* code: in some other market the same candidate has another confidence.   *)
C21_EveryConfidenceFollowsMarket ==
    (pc \in ModelOps /\ OrdinaryMarket) =>
        \E cardinal \in BOOLEAN :
            /\ ModelOutput(pc, args.market, cardinal) = ret.predictions
            /\ \A k \in 1..Len(ret.predictions) : FollowsMarket(k, cardinal)

(* C21, what the code does: the confidences of Gann supports, wheel angles *)
(* and volume divergence levels follow the market; those of Gann           *)
(* resistances (90 - 5i), volume breakout levels (80 - 10j), volume-price  *)
(* memory levels (70 + rank, at most 90), Fibonacci levels (70 or 60) and  *)
(* pivot levels (always clamped to 95) are the same in every market.       *)
C21_StaticAndDynamicKinds ==
    (pc \in ModelOps /\ OrdinaryMarket) =>
        \E cardinal \in BOOLEAN :
            /\ ModelOutput(pc, args.market, cardinal) = ret.predictions
            /\ \A k \in 1..Len(ret.predictions) :
                   FollowsMarket(k, cardinal) <=> ~ IsStaticKind(ret.predictions[k])

-----------------------------------------------------------------------------
(* The calls of _calculate_dynamic_confidence that                         *)
(* _calculate_support_resistance_targets makes (specification              *)
(* SpecConfidence).                                                        *)

(* the pivot points for which a prediction is made, in order *)
PredictedPoints ==
    SelectSeq(PivotPoints,
              LAMBDA point : (IF point.target_price > args.market.current_price
                              THEN point.target_price - args.market.current_price
                              ELSE args.market.current_price - point.target_price) * 200
                             > 3 * args.market.current_price)

Within(x, limit) == RatLe(RatSub(<<0, 1>>, limit), x) /\ RatLe(x, limit)

InMarket == ~ IsNaN(args.market.market_volatility) /\ ~ IsNaN(args.market.volume_factor)

(* C22 as stated: in every call the strength passed is between 0 and 1,    *)
(* the strength adjustment is within 17.5 of zero, the volatility          *)
(* adjustment within 10, the volume-factor adjustment within 7.5, the      *)
(* alignment adjustment within 12.5, and the confidence is the integer     *)
(* part of base plus adjustments, clamped to [30, 95].                     *)
C22_AdjustmentsWithinStatedRanges ==
    (pc = "support_resistance_targets" /\ InMarket) =>
        /\ Len(ret.predictions) = Len(PredictedPoints)
        /\ \A k \in 1..Len(PredictedPoints) :
               LET strength == PivotStrength(PredictedPoints[k])
                   adjustments ==
                       RatAdd(RatAdd(RatAdd(strength_adjustment(strength),
                           volatility_adjustment(args.market.market_volatility)),
                           volume_adjustment(args.market.volume_factor)),
                           alignment_adjustment(<<2, 5>>))
               IN  /\ RatLe(<<0, 1>>, strength) /\ RatLe(strength, <<1, 1>>)
                   /\ Within(strength_adjustment(strength), <<35, 2>>)
                   /\ Within(volatility_adjustment(args.market.market_volatility), <<10, 1>>)
                   /\ Within(volume_adjustment(args.market.volume_factor), <<15, 2>>)
                   /\ Within(alignment_adjustment(<<2, 5>>), <<25, 2>>)
                   /\ ret.predictions[k].confidence =
                         Max2(30, Min2(95, IntPart(RatAdd(<<55, 1>>, adjustments))))

(* C22, what the code does: the strength passed for a pivot point is the   *)
(* point's confidence, 75 to 90, so the strength adjustment is at least    *)
(* 2607.5 and the confidence is 95 in every market; the volume-factor      *)
(* adjustment lies between -5 and +10.                                     *)
C22_PivotStrengthOffScale ==
    (pc = "support_resistance_targets" /\ InMarket) =>
        /\ Len(ret.predictions) = Len(PredictedPoints)
        /\ \A k \in 1..Len(PredictedPoints) :
               /\ RatLe(<<75, 1>>, PivotStrength(PredictedPoints[k]))
               /\ RatLe(PivotStrength(PredictedPoints[k]), <<90, 1>>)
               /\ RatLe(<<5215, 2>>, strength_adjustment(PivotStrength(PredictedPoints[k])))
               /\ ret.predictions[k].confidence = 95
        /\ RatLe(<<-5, 1>>, volume_adjustment(args.market.volume_factor))
        /\ RatLe(volume_adjustment(args.market.volume_factor), <<10, 1>>)

-----------------------------------------------------------------------------
(* Specification SpecValidity: _calculate_time_sensitivity for every       *)
(* confidence from 30 to 95 and volatilities around the two thresholds.    *)

_calculate_time_sensitivity_inclusive(prediction, market_metrics) ==
    Bind(Get(market_metrics, "volatility", <<3, 10>>), LAMBDA volatility :
    Bind(IF Gt(volatility, <<2, 5>>) THEN 3 ELSE IF Gt(volatility, <<1, 4>>) THEN 7 ELSE 14,
         LAMBDA validity_days :
             IF prediction.confidence >= 80 THEN IntPart(RatMul(RatInt(validity_days), <<3, 2>>))
             ELSE IF prediction.confidence < 60
             THEN IntPart(RatMul(RatInt(validity_days), <<7, 10>>))
             ELSE validity_days))

(* validity_days of the returned text; none of the products validity_days  *)
(* * 0.7 is within rounding of an integer, so int() of the float is the    *)
(* integer part of the exact product                                       *)
_calculate_time_sensitivity(prediction, market_metrics) ==
    Bind(Get(market_metrics, "volatility", <<3, 10>>), LAMBDA volatility :
    Bind(IF Gt(volatility, <<2, 5>>) THEN 3 ELSE IF Gt(volatility, <<1, 4>>) THEN 7 ELSE 14,
         LAMBDA validity_days :
             IF prediction.confidence > 80 THEN IntPart(RatMul(RatInt(validity_days), <<3, 2>>))
             ELSE IF prediction.confidence < 60
             THEN IntPart(RatMul(RatInt(validity_days), <<7, 10>>))
             ELSE validity_days))

ValidityConfidences == 30..95
ValidityVolatilities ==
    {<<0, 1>>, <<1, 5>>, <<1, 4>>, <<13, 50>>, <<3, 10>>, <<2, 5>>, <<41, 100>>, <<3, 4>>}

MarketMetrics == {<< >>} \cup {[volatility |-> v] : v \in ValidityVolatilities}

InitValidity ==
    /\ pc = "ready"
    /\ \E confidence \in ValidityConfidences : \E market_metrics \in MarketMetrics :
           args = [prediction |-> Prediction("fibonacci", "up", 1000, confidence),
                   market_metrics |-> market_metrics]
    /\ ret = None
    /\ bars = NoTable /\ now = 0 /\ self = NoSelf /\ analysis_result = None
    /\ raised = "none" /\ stages_run = << >> /\ history = << >>

CalculateTimeSensitivity ==
    /\ pc = "ready"
    /\ ret' = _calculate_time_sensitivity(args.prediction, args.market_metrics)
    /\ pc' = "time_sensitivity"
    /\ MergeFrame

NextValidity == CalculateTimeSensitivity

SpecValidity == InitValidity /\ [][NextValidity]_vars

VolatilityOf(market_metrics) == Get(market_metrics, "volatility", <<3, 10>>)

(* the window the buckets and factors give, computed in twentieths *)
StatedWindow(volatility, confidence) ==
    LET days == IF RatLt(<<2, 5>>, volatility) THEN 3
                ELSE IF RatLt(<<1, 4>>, volatility) THEN 7 ELSE 14
        twentieths == IF confidence > 80 THEN 30 ELSE IF confidence < 60 THEN 14 ELSE 20
    IN  (days * twentieths) \div 20

(* C23: the validity window is 3 days for volatility > 0.4, 7 for          *)
(* volatility > 0.25, else 14, times 1.5 for confidence > 80 or 0.7 for    *)
(* confidence < 60, truncated; it is one of 2, 3, 4, 7, 9, 10, 14, 21; a   *)
(* higher volatility never gives a longer window and a higher confidence   *)
(* never a shorter one.                                                    *)
C23_ValidityWindow ==
    pc = "time_sensitivity" =>
        /\ ret = StatedWindow(VolatilityOf(args.market_metrics), args.prediction.confidence)
        /\ ret \in {2, 3, 4, 7, 9, 10, 14, 21}
        /\ \A v \in ValidityVolatilities :
               RatLe(VolatilityOf(args.market_metrics), v) =>
                   _calculate_time_sensitivity(args.prediction, [volatility |-> v]) <= ret
        /\ \A c \in ValidityConfidences :
               c >= args.prediction.confidence =>
                   _calculate_time_sensitivity([args.prediction EXCEPT !.confidence = c],
                                               args.market_metrics) >= ret

(* a window of 4 days reached from the 7-day bucket at confidence 59 *)
C23_Witness ==
    /\ pc = "time_sensitivity"
    /\ args.prediction.confidence = 59 /\ ret = 4
    /\ VolatilityOf(args.market_metrics) = <<13, 50>>

-----------------------------------------------------------------------------
(* Specification SpecCombine: _combine_predictions and                     *)
(* _calculate_prediction_confidence on the prediction lists the three      *)
(* predictors build: time-cycle predictions carry no direction, price      *)
(* targets carry 'up' or 'down', the angle predictions 'support' or        *)
(* 'resistance'.  Strengths are touch or match ratios between 0 and 1.     *)

(* getattr(self, '_current_price', 0): no statement assigns the attribute *)
_current_price == 0

(* p.get(key) is one of the words *)
GetIn(p, key, words) == key \in DOMAIN p /\ p[key] \in words

IsUpPrediction(p) ==
    GetIn(p, "direction", {"up", "resistance"}) \/ GetIn(p, "type", {"resistance"})

IsDownPrediction(p) ==
    GetIn(p, "direction", {"down", "support"}) \/ GetIn(p, "type", {"support"})

StrengthsOf(predictions, default) ==
    [k \in 1..Len(predictions) |-> Get(predictions[k], "strength", default)]

(* a target_price that is present and not zero *)
HasTarget(p) == "target_price" \in DOMAIN p /\ p.target_price # 0

(* the totals after the fall-back on target prices *)
DirectionTotals(all_predictions) ==
    Bind(RatSum(StrengthsOf(SelectSeq(all_predictions, IsUpPrediction), <<0, 1>>)),
         LAMBDA up_strength :
    Bind(RatSum(StrengthsOf(SelectSeq(all_predictions, IsDownPrediction), <<0, 1>>)),
         LAMBDA down_strength :
        IF up_strength = <<0, 1>> /\ down_strength = <<0, 1>> /\ all_predictions # << >>
        THEN LET counted == SelectSeq(all_predictions,
                                LAMBDA p : HasTarget(p) /\ _current_price > 0)
                 above == SelectSeq(counted, LAMBDA p : p.target_price > _current_price)
                 below == SelectSeq(counted, LAMBDA p : ~(p.target_price > _current_price))
             IN  [up_strength |-> RatSum(StrengthsOf(above, <<1, 2>>)),
                  down_strength |-> RatSum(StrengthsOf(below, <<1, 2>>))]
        ELSE [up_strength |-> up_strength, down_strength |-> down_strength]))

TrendOf_inclusive(up_strength, down_strength) ==
    IF RatLe(RatMul(down_strength, <<6, 5>>), up_strength) THEN "bullish"
    ELSE IF RatLe(RatMul(up_strength, <<6, 5>>), down_strength) THEN "bearish"
    ELSE "neutral"

(* overall_trend; the products by 1.2 are compared as exact numbers *)
TrendOf(up_strength, down_strength) ==
    IF RatLt(RatMul(down_strength, <<6, 5>>), up_strength) THEN "bullish"
    ELSE IF RatLt(RatMul(up_strength, <<6, 5>>), down_strength) THEN "bearish"
    ELSE "neutral"

TopPredictions == 10

(* the two Chinese words of direction, rise and fall, are written in their *)
(* romanised form                                                          *)

_combine_predictions(time_pred, price_pred, angle_pred) ==
    Bind(SortedByStrengthDesc(Get(time_pred, "predictions", << >>)
                              \o Get(price_pred, "predictions", << >>)
                              \o Get(angle_pred, "predictions", << >>)),
         LAMBDA all_predictions :
    Bind(DirectionTotals(all_predictions), LAMBDA totals :
    Bind(IF all_predictions # << >> THEN all_predictions[1] ELSE None,
         LAMBDA strongest_prediction :
    Bind(TrendOf(totals.up_strength, totals.down_strength), LAMBDA overall_trend :
        [all_predictions |->
             SubSeq(all_predictions, 1, Min2(Len(all_predictions), TopPredictions)),
         strongest_prediction |-> strongest_prediction,
         overall_trend |-> overall_trend,
         direction |-> IF overall_trend = "bullish" THEN "shangzhang"
                       ELSE IF overall_trend = "bearish" THEN "xiadie" ELSE "neutral",
         target_price |-> IF strongest_prediction # None
                          THEN Get(strongest_prediction, "target_price", None)
                          ELSE None,
         trend_strength |-> RatMax(totals.up_strength, totals.down_strength),
         up_strength |-> totals.up_strength,
         down_strength |-> totals.down_strength]))))

_calculate_prediction_confidence(combined_prediction) ==
    LET predictions == Get(combined_prediction, "all_predictions", << >>)
    IN  IF predictions = << >> THEN <<0, 1>>
        ELSE Bind(RatDiv(RatSum(StrengthsOf(predictions, <<0, 1>>)),
                         RatInt(Len(predictions))),
                  LAMBDA avg_strength :
                      RatMin(RatDiv(RatAdd(avg_strength,
                                           Get(combined_prediction, "trend_strength",
                                               <<0, 1>>)),
                                    <<2, 1>>),
                             <<1, 1>>))

MaxPredictions == 2

(* strengths above the 0.3 every time cycle and angle line has to pass *)
LineStrengths == {<<1, 2>>, <<3, 5>>, <<1, 1>>}
(* price levels pass above 0.2 *)
TargetStrengths == LineStrengths \cup {<<1, 4>>}

TimePredictions ==
    {<< >>} \cup
    {<<[type |-> "time_cycle", cycle_days |-> 30, strength |-> strength,
        prediction |-> "potential_turning_point"]>> : strength \in LineStrengths}

PriceTarget(direction, strength) ==
    [type |-> "price_target", target_price |-> IF direction = "up" THEN 110 ELSE 90,
     direction |-> direction, strength |-> strength]

PriceTargets == {PriceTarget(direction, strength) :
                    direction \in {"up", "down"}, strength \in TargetStrengths}

PricePredictions ==
    UNION {[1..n -> PriceTargets] : n \in 0..MaxPredictions}

AnglePredictions ==
    {support \o resistance :
        support \in {<< >>} \cup
            {<<[type |-> "angle_support", target_price |-> 95, direction |-> "support",
                strength |-> strength]>> : strength \in LineStrengths},
        resistance \in {<< >>} \cup
            {<<[type |-> "angle_resistance", target_price |-> 105,
                direction |-> "resistance", strength |-> strength]>> :
                    strength \in LineStrengths}}

InitCombine ==
    /\ pc = "ready"
    /\ \E time \in TimePredictions : \E price \in PricePredictions :
       \E angle \in AnglePredictions :
           args = [time_pred |-> [predictions |-> time, dominant_cycle |-> None],
                   price_pred |-> [predictions |-> price, current_position |-> None],
                   angle_pred |-> [predictions |-> angle]]
    /\ ret = None
    /\ bars = NoTable /\ now = 0 /\ self = NoSelf /\ analysis_result = None
    /\ raised = "none" /\ stages_run = << >> /\ history = << >>

(* the last two steps of _generate_predictions *)
CombinePredictions ==
    /\ pc = "ready"
    /\ ret' = Bind(_combine_predictions(args.time_pred, args.price_pred, args.angle_pred),
                   LAMBDA combined_prediction :
                       [combined_prediction |-> combined_prediction,
                        confidence_level |->
                            _calculate_prediction_confidence(combined_prediction)])
    /\ pc' = "combined"
    /\ MergeFrame

NextCombine == CombinePredictions

SpecCombine == InitCombine /\ [][NextCombine]_vars

(* the strengths of the predictions that point up: price targets above     *)
(* the close and the angle resistance; and of those that point down        *)
UpTotal ==
    RatSum(StrengthsOf(SelectSeq(args.price_pred.predictions \o args.angle_pred.predictions,
                                 LAMBDA p : p.direction \in {"up", "resistance"}),
                       <<0, 1>>))

DownTotal ==
    RatSum(StrengthsOf(SelectSeq(args.price_pred.predictions \o args.angle_pred.predictions,
                                 LAMBDA p : p.direction \in {"down", "support"}),
                       <<0, 1>>))

PredictionCount ==
    Len(args.time_pred.predictions) + Len(args.price_pred.predictions)
        + Len(args.angle_pred.predictions)

(* C24: the totals are the sums of strengths by direction; overall_trend   *)
(* is 'bullish' exactly when the up total is more than 1.2 times the down  *)
(* total, 'bearish' exactly when the down total is more than 1.2 times the *)
(* up total, 'neutral' otherwise, also when both are zero; the two are     *)
(* never both the case; confidence_level is between 0 and 1 and is 0       *)
(* without predictions.                                                    *)
C24_TrendByTwentyPercent ==
    pc = "combined" =>
        LET combined == ret.combined_prediction
            bullish == RatLt(RatMul(DownTotal, <<6, 5>>), UpTotal)
            bearish == RatLt(RatMul(UpTotal, <<6, 5>>), DownTotal)
        IN  /\ combined.up_strength = UpTotal
            /\ combined.down_strength = DownTotal
            /\ (combined.overall_trend = "bullish") <=> bullish
            /\ (combined.overall_trend = "bearish") <=> bearish
            /\ (combined.overall_trend = "neutral") <=> (~bullish /\ ~bearish)
            /\ ~(bullish /\ bearish)
            /\ (UpTotal = <<0, 1>> /\ DownTotal = <<0, 1>>) =>
                   combined.overall_trend = "neutral"
            /\ RatLe(<<0, 1>>, ret.confidence_level)
            /\ RatLe(ret.confidence_level, <<1, 1>>)
            /\ PredictionCount = 0 => ret.confidence_level = <<0, 1>>

(* an up total of exactly 1.2 times the down total, reported neutral *)
C24_Witness ==
    /\ pc = "combined"
    /\ UpTotal = <<3, 5>> /\ DownTotal = <<1, 2>>
    /\ ret.combined_prediction.overall_trend = "neutral"
    /\ RatLt(<<0, 1>>, ret.confidence_level)

-----------------------------------------------------------------------------
(* Specification SpecPriceCycles: the key levels of _analyze_price_cycles  *)
(* and the price targets _predict_by_price_cycles makes of them, on short  *)
(* bar tables with prices between 80 and 120.                              *)

(* for pct in [0.236, 0.382, 0.5, 0.618, 0.786, 1.0, 1.272, 1.618] *)
cycle_ratios == <<<<59, 250>>, <<191, 500>>, <<1, 2>>, <<309, 500>>, <<393, 500>>,
                  <<1, 1>>, <<159, 125>>, <<809, 500>>>>

(* the rows of data that Keep accepts, counted *)
CountRows(data, Keep(_)) == Cardinality({k \in 0..(Len0(data) - 1) : Keep(Iloc(data.rows, k))})

_calculate_price_level_strength(data, level) ==
    LET tolerance_range == RatMul(level, Tolerance)
        touches == CountRows(data, LAMBDA row :
                       \/ RatLe(RatAbs(RatSub(RatInt(row.High), level)), tolerance_range)
                       \/ RatLe(RatAbs(RatSub(RatInt(row.Low), level)), tolerance_range))
    IN  RatMin(Rat(touches, Len0(data)), <<1, 1>>)

_count_price_touches(data, level) ==
    LET tolerance_range == RatMul(level, Tolerance)
    IN  CountRows(data, LAMBDA row :
            /\ RatLe(RatInt(row.Low), RatAdd(level, tolerance_range))
            /\ RatLe(RatSub(level, tolerance_range), RatInt(row.High)))

(* the level above (side 1) or below (side -1) the centre for one ratio *)
CycleLevel(data, pct, side) ==
    LET price_range == MaxCol(data, "High") - MinCol(data, "Low")
        price_center == Rat(MaxCol(data, "High") + MinCol(data, "Low"), 2)
    IN  RatAdd(price_center,
               RatMul(RatInt(side), RatDiv(RatMul(RatInt(price_range), pct), <<2, 1>>)))

(* the record appended for the upper level (side 1) or the lower level *)
CycleRecord(data, pct, side) ==
    Bind(CycleLevel(data, pct, side), LAMBDA level :
        [level |-> level,
         type |-> IF side = 1 THEN "resistance" ELSE "support",
         ratio |-> pct,
         strength |-> _calculate_price_level_strength(data, level),
         touches |-> _count_price_touches(data, level)])

(* price_cycles after the loop and the sort: for every ratio the upper     *)
(* record, then the lower one, each when its strength is above 0.2         *)
price_cycles(data) ==
    SortedByStrengthDesc(SelectSeq(
        [k \in 1..(2 * Len(cycle_ratios)) |->
            CycleRecord(data, cycle_ratios[(k + 1) \div 2], IF k % 2 = 1 THEN 1 ELSE -1)],
        LAMBDA record : RatLt(<<1, 5>>, record.strength)))

KeptLevels == 10
TargetLevels == 5

key_levels(data) ==
    Bind(price_cycles(data), LAMBDA cycles : SubSeq(cycles, 1, Min2(Len(cycles), KeptLevels)))

_predict_by_price_cycles(data, price_analysis) ==
    LET current_price == Col(data, "Close", -1)
        levels == Get(price_analysis, "key_levels", << >>)
        first == SubSeq(levels, 1, Min2(Len(levels), TargetLevels))
        targets == SelectSeq(first, LAMBDA level :
                       \/ level.type = "resistance" /\ RatLt(RatInt(current_price), level.level)
                       \/ level.type = "support" /\ RatLt(level.level, RatInt(current_price)))
    IN  [predictions |->
            [k \in 1..Len(targets) |->
                [type |-> "price_target",
                 target_price |-> targets[k].level,
                 direction |-> IF targets[k].type = "resistance" THEN "up" ELSE "down",
                 strength |-> targets[k].strength,
                 distance_pct |->
                     RatDiv(RatAbs(RatSub(targets[k].level, RatInt(current_price))),
                            RatInt(current_price))]],
         current_position |-> Get(price_analysis, "current_position", None)]

MaxCycleBars == 2
CyclePrices == {80, 90, 100, 110, 120}

CycleBars ==
    {[date |-> 0, Open |-> low, High |-> high, Low |-> low, Close |-> close, Volume |-> 1] :
        low \in CyclePrices, high \in CyclePrices, close \in CyclePrices}

IsCycleBar(bar) == bar.Low < bar.High /\ bar.Low <= bar.Close /\ bar.Close <= bar.High

(* every bar but the last closes at its high *)
CycleTables ==
    {[columns |-> RequiredColumns,
      rows |-> [k \in 1..Len(rows) |-> [rows[k] EXCEPT !.date = k - 1]]] :
        rows \in {r \in UNION {[1..n -> CycleBars] : n \in 1..MaxCycleBars} :
                     /\ \A k \in 1..Len(r) : IsCycleBar(r[k])
                     /\ \A k \in 1..(Len(r) - 1) : r[k].Close = r[k].High}}

InitPriceCycles ==
    /\ pc = "ready"
    /\ bars \in CycleTables
    /\ args = << >>
    /\ ret = None
    /\ now = 0 /\ self = NoSelf /\ analysis_result = None
    /\ raised = "none" /\ stages_run = << >> /\ history = << >>

AnalyzePriceCycles ==
    /\ pc = "ready"
    /\ ret' = Bind(key_levels(bars), LAMBDA levels :
                  [key_levels |-> levels,
                   predictions |->
                       _predict_by_price_cycles(bars, [key_levels |-> levels]).predictions])
    /\ pc' = "price_cycles"
    /\ MergeFrame

NextPriceCycles == AnalyzePriceCycles

SpecPriceCycles == InitPriceCycles /\ [][NextPriceCycles]_vars

LastClose == RatInt(Col(bars, "Close", -1))

(* C25: every kept level is typed 'support' if it is below the current     *)
(* close and 'resistance' otherwise, and each of the first five is the     *)
(* target of a price prediction on its own side.                           *)
C25_LevelsTypedByClose ==
    pc = "price_cycles" =>
        \A k \in 1..Len(ret.key_levels) :
            LET level == ret.key_levels[k]
            IN  /\ level.type = (IF RatLt(level.level, LastClose) THEN "support"
                                 ELSE "resistance")
                /\ (k <= TargetLevels /\ level.level # LastClose) =>
                       \E j \in 1..Len(ret.predictions) :
                           /\ ret.predictions[j].target_price = level.level
                           /\ ret.predictions[j].direction =
                                  (IF level.type = "resistance" THEN "up" ELSE "down")

PriceCenter == Rat(MaxCol(bars, "High") + MinCol(bars, "Low"), 2)

(* C25, what the code does: a kept level is typed by the side of the       *)
(* price centre it was computed on, 'resistance' at or above the centre    *)
(* and 'support' at or below it; the kept levels are at most ten, each of  *)
(* strength above 0.2, in order of non-increasing strength; a price target *)
(* is made of a level among the first five only when its type agrees with  *)
(* its side of the close.                                                  *)
C25_LevelsTypedByCentre ==
    pc = "price_cycles" =>
        /\ Len(ret.key_levels) <= KeptLevels
        /\ \A k \in 1..Len(ret.key_levels) :
               LET level == ret.key_levels[k]
               IN  /\ RatLt(<<1, 5>>, level.strength)
                   /\ level.type = "resistance" => RatLt(PriceCenter, level.level)
                   /\ level.type = "support" => RatLt(level.level, PriceCenter)
                   /\ level.type \in {"support", "resistance"}
                   /\ k > 1 => RatLe(level.strength, ret.key_levels[k - 1].strength)
        /\ \A j \in 1..Len(ret.predictions) :
               \E k \in 1..Min2(Len(ret.key_levels), TargetLevels) :
                   LET level == ret.key_levels[k]
                   IN  /\ ret.predictions[j].target_price = level.level
                       /\ level.type = (IF RatLt(level.level, LastClose) THEN "support"
                                        ELSE "resistance")
        /\ \A k \in 1..Min2(Len(ret.key_levels), TargetLevels) :
               LET level == ret.key_levels[k]
               IN  (level.type = "resistance" /\ RatLt(level.level, LastClose)) =>
                       \A j \in 1..Len(ret.predictions) :
                           ret.predictions[j].target_price # level.level

-----------------------------------------------------------------------------
(* Specification SpecAngles: the angle lines of _analyze_gann_angles, the  *)
(* current angle support and resistance, and the tangent the wheel levels  *)
(* of the synthesizer use, on 13-bar tables around a price of 100.         *)

price_angles == <<15, 30, 45, 60, 75, 90, 105, 120, 135, 150, 165, 180>>

(* math.tan(math.radians(90)) is 1.633e16, not infinite.  It is kept as    *)
(* 10^4: a line of that slope is, one bar from its origin, a hundred times *)
(* the origin's price away from it, so every comparison of a projected     *)
(* price with a bar's prices has the outcome the true value gives.         *)
TanAtRightAngle == 10000

(* math.tan(math.radians(angle)) to two decimals.  The tangent of 180      *)
(* degrees is -1.2e-16, which is lost in every sum with a price: 0.        *)
Tan(angle) ==
    CASE angle = <<15, 1>>  -> <<27, 100>>
      [] angle = <<45, 2>>  -> <<41, 100>>
      [] angle = <<30, 1>>  -> <<29, 50>>
      [] angle = <<45, 1>>  -> <<1, 1>>
      [] angle = <<60, 1>>  -> <<173, 100>>
      [] angle = <<135, 2>> -> <<241, 100>>
      [] angle = <<75, 1>>  -> <<373, 100>>
      [] angle = <<90, 1>>  -> <<TanAtRightAngle, 1>>
      [] angle = <<105, 1>> -> <<-373, 100>>
      [] angle = <<120, 1>> -> <<-173, 100>>
      [] angle = <<135, 1>> -> <<-1, 1>>
      [] angle = <<150, 1>> -> <<-29, 50>>
      [] angle = <<165, 1>> -> <<-27, 100>>
      [] angle = <<180, 1>> -> <<0, 1>>

(* the angles math.tan is called with for the slope: none when the slope   *)
(* comes from one of the three fixed identities                            *)
TangentTaken(angle) ==
    IF angle \in {<<45, 1>>, <<105, 4>>, <<255, 4>>} THEN {} ELSE {angle}

Negated(point_type, slope) == IF point_type = "low" THEN slope ELSE RatSub(<<0, 1>>, slope)

SlopeOf_guarded(angle, point_type) ==
    IF angle = <<45, 1>> THEN Negated(point_type, <<1, 1>>)
    ELSE IF angle = <<105, 4>> THEN Negated(point_type, <<2, 1>>)
    ELSE IF angle = <<255, 4>> THEN Negated(point_type, <<1, 2>>)
    ELSE IF angle \in {<<90, 1>>, <<270, 1>>} THEN Negated(point_type, <<10, 1>>)
    ELSE Negated(point_type, Tan(angle))

(* slope: 1, 2 and 0.5 for 45, 26.25 and 63.75 degrees, else the tangent;  *)
(* negated for a line from a high                                          *)
SlopeOf(angle, point_type) ==
    IF angle = <<45, 1>> THEN Negated(point_type, <<1, 1>>)
    ELSE IF angle = <<105, 4>> THEN Negated(point_type, <<2, 1>>)
    ELSE IF angle = <<255, 4>> THEN Negated(point_type, <<1, 2>>)
    ELSE Negated(point_type, Tan(angle))

(* start_price + (slope * days_diff * start_price * 0.01) *)
LinePrice(start_price, slope, days_diff) ==
    RatAdd(RatInt(start_price),
           RatMul(RatMul(slope, RatInt(days_diff * start_price)), <<1, 100>>))

(* data.index.get_loc(start_date) if start_date in data.index else 0 *)
StartIndex(data, start_date) ==
    LET found == {k \in 0..(Len0(data) - 1) : IndexAt(data, k) = start_date}
    IN  IF found = {} THEN 0 ELSE CHOOSE k \in found : TRUE

(* actual_low <= predicted_price + tolerance_range and actual_high >=      *)
(* predicted_price - tolerance_range, the two bounds taken as products of  *)
(* predicted_price                                                         *)
TouchesLine(data, i, predicted_price) ==
    /\ RatLe(RatInt(Col(data, "Low", i)),
             RatMul(predicted_price, RatAdd(<<1, 1>>, Tolerance)))
    /\ RatLe(RatMul(predicted_price, RatSub(<<1, 1>>, Tolerance)),
             RatInt(Col(data, "High", i)))

_calculate_gann_angle_line(data, start_date, start_price, angle, point_type) ==
    Bind(SlopeOf(RatInt(angle), point_type), LAMBDA slope :
    Bind(StartIndex(data, start_date), LAMBDA start_index :
    Bind(ListOf(start_index + 1, Len0(data),
                LAMBDA i : TouchesLine(data, i,
                               LinePrice(start_price, slope, i - start_index)),
                LAMBDA i : [date |-> IndexAt(data, i),
                            predicted_price |->
                                LinePrice(start_price, slope, i - start_index),
                            actual_price |->
                                Rat(Col(data, "High", i) + Col(data, "Low", i), 2)]),
         LAMBDA line_points :
        [start_date |-> start_date, start_price |-> start_price, angle |-> angle,
         point_type |-> point_type, slope |-> slope,
         strength |-> IF Len0(data) - start_index > 0
                      THEN Rat(Len(line_points), Len0(data) - start_index)
                      ELSE <<0, 1>>,
         touches |-> Len(line_points),
         line_points |-> line_points])))

(* the line of angle_lines that is nearest to the close on its side:       *)
(* side 1 the lines of low origin below the close, side -1 the lines of    *)
(* high origin above it; the first of the nearest ones; None without one   *)
NearestLine(data, angle_lines, side) ==
    LET current_price == RatInt(Col(data, "Close", -1))
        current_date == IndexAt(data, -1)
        PriceOf(line) == LinePrice(line.start_price, line.slope,
                                   current_date - line.start_date)
        DistanceOf(line) == IF side = 1 THEN RatSub(current_price, PriceOf(line))
                            ELSE RatSub(PriceOf(line), current_price)
        candidates == {k \in 1..Len(angle_lines) :
                          /\ angle_lines[k].point_type = (IF side = 1 THEN "low" ELSE "high")
                          /\ current_date > angle_lines[k].start_date
                          /\ RatLt(<<0, 1>>, DistanceOf(angle_lines[k]))}
    IN  IF candidates = {} THEN None
        ELSE LET best == CHOOSE k \in candidates :
                             \A j \in candidates :
                                 \/ RatLt(DistanceOf(angle_lines[k]), DistanceOf(angle_lines[j]))
                                 \/ (DistanceOf(angle_lines[k]) = DistanceOf(angle_lines[j])
                                     /\ k <= j)
             IN  [line_info |-> angle_lines[best],
                  price |-> PriceOf(angle_lines[best]),
                  distance |-> DistanceOf(angle_lines[best]),
                  distance_pct |-> RatDiv(DistanceOf(angle_lines[best]), current_price)]

Renamed(found, key) ==
    IF found = None THEN None
    ELSE [line_info |-> found.line_info, distance |-> found.distance,
          distance_pct |-> found.distance_pct] @@ (key :> found.price)

_find_current_angle_support(data, angle_lines) ==
    Renamed(NearestLine(data, angle_lines, 1), "support_price")

_find_current_angle_resistance(data, angle_lines) ==
    Renamed(NearestLine(data, angle_lines, -1), "resistance_price")

RecentPoints == 5
KeptLines == 20

(* the last five of a list of pivots *)
LastPoints(points) == SubSeq(points, Max2(1, Len(points) - RecentPoints + 1), Len(points))

(* the lines drawn from the points, point by point and angle by angle *)
LinesFrom(data, points, point_type) ==
    [k \in 1..(Len(points) * Len(price_angles)) |->
        LET point == points[((k - 1) \div Len(price_angles)) + 1]
        IN  _calculate_gann_angle_line(data, point.date, point.price,
                price_angles[((k - 1) % Len(price_angles)) + 1], point_type)]

(* angle_lines after the loops and the sort *)
angle_lines(data) ==
    Strict(_find_pivot_points(data, PivotWindow), LAMBDA pivots :
    Strict(SelectSeq(LinesFrom(data, LastPoints(pivots.highs), "high")
                         \o LinesFrom(data, LastPoints(pivots.lows), "low"),
                     LAMBDA line : RatLt(<<3, 10>>, line.strength)),
           LAMBDA kept : SortedByStrengthDesc(kept)))

(* the result of _analyze_gann_angles on a table with the three columns *)
AngleAnalysis(data) ==
    Strict(angle_lines(data), LAMBDA lines :
        [angle_lines |-> SubSeq(lines, 1, Min2(Len(lines), KeptLines)),
         current_angle_support |-> _find_current_angle_support(data, lines),
         current_angle_resistance |-> _find_current_angle_resistance(data, lines)])

(* the tangent of one angle of the wheel: 10 from 90 degrees on, and never *)
(* more than 10; and the two multipliers made of it                        *)
WheelTangent(angle) ==
    Bind(IF RatLe(<<90, 1>>, angle) THEN <<10, 1>> ELSE Tan(angle), LAMBDA tan_value :
    Bind(RatMin(tan_value, <<10, 1>>), LAMBDA capped :
        [gann_angle |-> angle,
         tangent_of |-> IF RatLe(<<90, 1>>, angle) THEN {} ELSE {angle},
         tan_value |-> capped,
         up_multiplier |-> RatMin(RatMul(capped, <<1, 50>>), <<1, 2>>),
         down_multiplier |-> RatMin(RatMul(capped, <<3, 200>>), <<2, 5>>)]))

(* 13 bars around 100: flat, or falling to a turn and rising from it, or   *)
(* rising to a turn and falling from it, by one or two points a day; a     *)
(* bar closes in the middle of its range, the last bar of a 'sagging'      *)
(* table at its low and of a 'lifting' table at its high                   *)
AngleShapes == {"flat", "valley", "hill", "sagging", "lifting"}
TurnDays == 5..7
DailySteps == {1, 2}
AngleBars == 13

AngleBase(shape, turn, step, day) ==
    CASE shape = "valley" -> 100 + step * Abs(day - turn)
      [] shape = "hill"   -> 140 - step * Abs(day - turn)
      [] OTHER            -> 100

AngleTable(shape, turn, step) ==
    [columns |-> RequiredColumns,
     rows |-> [i \in 1..AngleBars |->
                 [date |-> i - 1, Volume |-> 20]
                 @@ [Open |-> AngleBase(shape, turn, step, i - 1),
                     Close |-> AngleBase(shape, turn, step, i - 1)
                                 + (IF i < AngleBars THEN 0
                                    ELSE IF shape = "sagging" THEN -1
                                    ELSE IF shape = "lifting" THEN 1 ELSE 0)]
                 @@ [High |-> AngleBase(shape, turn, step, i - 1) + 1,
                     Low |-> AngleBase(shape, turn, step, i - 1) - 1]]]

AngleTables ==
    {AngleTable(shape, turn, step) :
        shape \in AngleShapes, turn \in TurnDays, step \in DailySteps}

InitAngles ==
    /\ pc = "ready"
    /\ bars \in AngleTables
    /\ args = << >>
    /\ ret = None
    /\ now = 0 /\ self = NoSelf /\ analysis_result = None
    /\ raised = "none" /\ stages_run = << >> /\ history = << >>

AngleFrame == UNCHANGED <<bars, now, self, analysis_result, raised, stages_run, history>>

(* one call of the inner loop of _analyze_gann_angles *)
CalculateGannAngleLine ==
    /\ pc = "ready"
    /\ \E point_type \in {"high", "low"} :
       \E k \in 1..RecentPoints : \E a \in 1..Len(price_angles) :
           LET pivots == _find_pivot_points(bars, PivotWindow)
               points == LastPoints(IF point_type = "high" THEN pivots.highs
                                    ELSE pivots.lows)
           IN  /\ k <= Len(points)
               /\ args' = [point |-> points[k], angle |-> price_angles[a],
                           point_type |-> point_type]
               /\ ret' = [tangent_of |-> TangentTaken(RatInt(price_angles[a])),
                          line |-> _calculate_gann_angle_line(bars, points[k].date,
                                       points[k].price, price_angles[a], point_type)]
    /\ pc' = "angle_line"
    /\ AngleFrame

AnalyzeGannAngles ==
    /\ pc = "ready"
    /\ ret' = AngleAnalysis(bars)
    /\ args' = args
    /\ pc' = "angle_analysis"
    /\ AngleFrame

CalculateWheelLevel ==
    /\ pc = "ready"
    /\ \E k \in 1..Len(gann_angles) :
           /\ args' = [gann_angle |-> gann_angles[k]]
           /\ ret' = WheelTangent(gann_angles[k])
    /\ pc' = "wheel_level"
    /\ AngleFrame

NextAngles == CalculateGannAngleLine \/ AnalyzeGannAngles \/ CalculateWheelLevel

SpecAngles == InitAngles /\ [][NextAngles]_vars

RightAngles == {<<90, 1>>, <<270, 1>>}

(* C26: no angle line and no wheel level takes the tangent of 90 or 270    *)
(* degrees, and every slope and tangent used is at most 10 in size.        *)
C26_TangentNeverAtRightAngle ==
    /\ pc = "angle_line" =>
           /\ ret.tangent_of \cap RightAngles = {}
           /\ RatLe(RatAbs(ret.line.slope), <<10, 1>>)
    /\ pc = "wheel_level" =>
           /\ ret.tangent_of \cap RightAngles = {}
           /\ RatLe(RatAbs(ret.tan_value), <<10, 1>>)

(* C26, what the code does: the wheel level of the synthesizer takes 10    *)
(* for 90 degrees without a call of the tangent; an angle line takes the   *)
(* tangent of every angle but 45, 26.25 and 63.75, of 90 degrees too, and  *)
(* the line of 90 degrees has the slope the tangent returns, which no bar  *)
(* after the origin touches.                                               *)
C26_OnlyWheelLevelGuarded ==
    /\ pc = "wheel_level" =>
           /\ ret.tangent_of \cap RightAngles = {}
           /\ RatLe(ret.tan_value, <<10, 1>>)
           /\ args.gann_angle = <<90, 1>> => ret.tan_value = <<10, 1>>
    /\ pc = "angle_line" =>
           /\ args.angle # 45 => ret.tangent_of = {RatInt(args.angle)}
           /\ args.angle = 90 =>
                  /\ RatAbs(ret.line.slope) = <<TanAtRightAngle, 1>>
                  /\ ret.line.touches = 0

(* C27: a line from a low has a slope above 0 and a line from a high a     *)
(* slope below 0; the current angle support is a line from a low, rising,  *)
(* whose price today is below the close, and the current angle resistance  *)
(* a line from a high, falling, whose price today is above the close.      *)
C27_LowLinesRiseHighLinesFall ==
    /\ pc = "angle_line" =>
           IF args.point_type = "low" THEN RatLt(<<0, 1>>, ret.line.slope)
           ELSE RatLt(ret.line.slope, <<0, 1>>)
    /\ pc = "angle_analysis" =>
           /\ ret.current_angle_support # None =>
                  /\ ret.current_angle_support.line_info.point_type = "low"
                  /\ RatLt(<<0, 1>>, ret.current_angle_support.line_info.slope)
                  /\ RatLt(ret.current_angle_support.support_price,
                           RatInt(Col(bars, "Close", -1)))
           /\ ret.current_angle_resistance # None =>
                  /\ ret.current_angle_resistance.line_info.point_type = "high"
                  /\ RatLt(ret.current_angle_resistance.line_info.slope, <<0, 1>>)
                  /\ RatLt(RatInt(Col(bars, "Close", -1)),
                           ret.current_angle_resistance.resistance_price)

(* C27, what the code does: the slope of a line from a low has the sign of *)
(* the tangent, above 0 for the angles below 90 degrees and at 90, below 0 *)
(* for the angles from 105 to 165, and the reverse from a high; the        *)
(* current support is a line from a low below the close and the current    *)
(* resistance a line from a high above it, of either direction.            *)
C27_SlopeHasSignOfTangent ==
    /\ pc = "angle_line" =>
           LET rising == IF args.point_type = "low" THEN RatLt(<<0, 1>>, ret.line.slope)
                         ELSE RatLt(ret.line.slope, <<0, 1>>)
               falling == IF args.point_type = "low" THEN RatLt(ret.line.slope, <<0, 1>>)
                          ELSE RatLt(<<0, 1>>, ret.line.slope)
           IN  /\ args.angle <= 90 => rising
               /\ (args.angle > 90 /\ args.angle < 180) => falling
    /\ pc = "angle_analysis" =>
           /\ ret.current_angle_support # None =>
                  /\ ret.current_angle_support.line_info.point_type = "low"
                  /\ RatLt(ret.current_angle_support.support_price,
                           RatInt(Col(bars, "Close", -1)))
           /\ ret.current_angle_resistance # None =>
                  /\ ret.current_angle_resistance.line_info.point_type = "high"
                  /\ RatLt(RatInt(Col(bars, "Close", -1)),
                           ret.current_angle_resistance.resistance_price)

-----------------------------------------------------------------------------
(* Specification SpecConsolidation: _identify_volume_consolidation on      *)
(* daily tables of volume 20 in which any of the days from the first one   *)
(* with a 20-day average on trade a volume of 10.                          *)

ConsolidationBars == 26

(* the days that have a 20-day average volume *)
AveragedDays == (MaPeriod - 1)..(ConsolidationBars - 1)

ConsolidationTable(low_days) ==
    [columns |-> RequiredColumns,
     rows |-> [i \in 1..ConsolidationBars |->
                 [date |-> i - 1, Open |-> 1000, High |-> 1001, Low |-> 999,
                  Close |-> 1000, Volume |-> IF (i - 1) \in low_days THEN 10 ELSE 20]]]

InitConsolidation ==
    /\ pc = "ready"
    /\ \E low_days \in SUBSET AveragedDays :
           /\ args = [low_days |-> low_days]
           /\ bars = ConsolidationTable(low_days)
    /\ ret = None
    /\ now = 0 /\ self = NoSelf /\ analysis_result = None
    /\ raised = "none" /\ stages_run = << >> /\ history = << >>

IdentifyVolumeConsolidation ==
    /\ pc = "ready"
    /\ ret' = _identify_volume_consolidation(bars)
    /\ pc' = "consolidation"
    /\ MergeFrame

NextConsolidation == IdentifyVolumeConsolidation

SpecConsolidation == InitConsolidation /\ [][NextConsolidation]_vars

(* first..last is a maximal run of days below 0.7 times the average *)
IsLowRun(first, last) ==
    /\ first <= last
    /\ \A k \in first..last : k \in args.low_days
    /\ (first - 1) \notin args.low_days
    /\ (last + 1) \notin args.low_days

LowRuns == {run \in AveragedDays \X AveragedDays : IsLowRun(run[1], run[2])}

RecordedRuns == {<<ret[k].start_date, ret[k].end_date>> : k \in 1..Len(ret)}

(* C28: one record for every maximal run of at least 3 consecutive bars    *)
(* of low volume, a run that lasts to the last bar included, none for a    *)
(* shorter run; start_date and end_date are the run's first and last bar.  *)
C28_EveryRunOfThreeRecorded ==
    pc = "consolidation" =>
        /\ RecordedRuns = {run \in LowRuns : run[2] - run[1] + 1 >= MinConsolidationDays}
        /\ Len(ret) = Cardinality(RecordedRuns)

(* C28, what the code does: the low-volume days are the days of volume 10; *)
(* one record for every maximal run that ends before the last bar and      *)
(* whose last day is at least 3 days after its first, which on consecutive *)
(* days is a run of at least 4 bars; a run that lasts to the last bar is   *)
(* never recorded.                                                         *)
C28_ClosedRunsOfFourRecorded ==
    pc = "consolidation" =>
        /\ \A k \in AveragedDays : IsLowVolume(bars, k) <=> k \in args.low_days
        /\ RecordedRuns = {run \in LowRuns : /\ run[2] - run[1] >= MinConsolidationDays
                                             /\ run[2] < ConsolidationBars - 1}
        /\ Len(ret) = Cardinality(RecordedRuns)
        /\ \A k \in 1..Len(ret) : ret[k].duration_days = ret[k].end_date - ret[k].start_date

-----------------------------------------------------------------------------
(* Specification SpecScore: _calculate_comprehensive_score on the results  *)
(* the five scored stages can leave: each stage's dictionary, or the empty *)
(* dictionary of a stage that failed.                                      *)

ScoredCorrelations == {NaN, <<0, 1>>, <<1, 2>>, <<-1, 1>>, <<1, 1>>}
ScoredConsistencies == {<<0, 1>>, <<1, 2>>, <<1, 1>>}

RelationResults ==
    {<< >>} \cup
    {[current_correlation |-> correlation,
      consistency_analysis |-> [current_consistency |-> consistency]] :
        correlation \in ScoredCorrelations, consistency \in ScoredConsistencies}

DivergenceResults ==
    {<< >>, [current_divergence |-> None],
     [current_divergence |-> [has_recent_divergence |-> FALSE]]}
    \cup {[current_divergence |->
              [has_recent_divergence |-> TRUE, days_since_divergence |-> days]] :
             days \in {0, 5, RecentWindowDays}}

AbnormalResults ==
    {<< >>} \cup {[recent_events |-> [k \in 1..n |-> "event"]] : n \in {0, 2, 5, 6}}

CoordinationResults ==
    {<< >>, [current_coordination |-> << >>]}
    \cup {[current_coordination |-> [level |-> level]] :
             level \in {"excellent", "good", "fair", "poor", "very_poor"}}

TrendResults ==
    {<< >>} \cup
    {[trend_consistency |-> [score |-> score]] :
        score \in {<<1, 1>>, <<4, 5>>, <<1, 5>>, <<3, 10>>, <<1, 2>>}}

InitScore ==
    /\ pc = "ready"
    /\ \E relation \in RelationResults : \E divergence \in DivergenceResults :
       \E abnormal \in AbnormalResults : \E coordination \in CoordinationResults :
       \E trend \in TrendResults :
           args = [result |-> [volume_price_relation |-> relation,
                               divergence_analysis |-> divergence,
                               abnormal_volume |-> abnormal,
                               price_volume_coordination |-> coordination,
                               trend_analysis |-> trend]]
    /\ ret = None
    /\ bars = NoTable /\ now = 0 /\ self = NoSelf /\ analysis_result = None
    /\ raised = "none" /\ stages_run = << >> /\ history = << >>

CalculateComprehensiveScore ==
    /\ pc = "ready"
    /\ ret' = _calculate_comprehensive_score(args.result)
    /\ pc' = "scored"
    /\ MergeFrame

NextScore == CalculateComprehensiveScore

SpecScore == InitScore /\ [][NextScore]_vars

WholeScores(values) == {RatInt(v) : v \in values}

(* C29: the comprehensive score is below 90, at most 85, and the rating is *)
(* never 'A+'; the relation and risk scores lie between 0 and 100, volume  *)
(* health is 30, 50, 70 or 90, coordination 20, 40, 50, 60, 80 or 95,      *)
(* trend consistency 20, 30, 50, 80 or 100.                                *)
C29_ScoreBelowNinety ==
    pc = "scored" =>
        /\ RatLe(ret.comprehensive_score, <<85, 1>>)
        /\ RatLt(ret.comprehensive_score, <<90, 1>>)
        /\ ret.rating # "A+"
        /\ "individual_scores" \in DOMAIN ret =>
               LET scores == ret.individual_scores
               IN  /\ RatLe(<<0, 1>>, scores.relation_score)
                   /\ RatLe(scores.relation_score, <<100, 1>>)
                   /\ RatLe(<<0, 1>>, scores.divergence_risk_score)
                   /\ RatLe(scores.divergence_risk_score, <<100, 1>>)
                   /\ scores.volume_health_score \in WholeScores({30, 50, 70, 90})
                   /\ scores.coordination_score \in WholeScores({20, 40, 50, 60, 80, 95})
                   /\ scores.trend_consistency_score \in WholeScores({20, 30, 50, 80, 100})

(* the highest score: every positive sub-score at its top and no           *)
(* divergence analysis to take a risk from                                 *)
C29_Witness ==
    /\ pc = "scored"
    /\ ret.comprehensive_score = <<82, 1>>
    /\ ret.rating = "A"
    /\ ret.individual_scores.divergence_risk_score = <<0, 1>>

-----------------------------------------------------------------------------
(* Signal confidence and the recommendation, on Spec *)

DivergenceSources == {"top_divergence", "bottom_divergence"}

(* C30: no signal of the four rule families has a confidence above 0.8, a  *)
(* divergence signal none above 0.75, its pivot lying at least 5 days      *)
(* before the last bar; the recommendation's action is never 'strong_buy'  *)
(* or 'strong_sell' and its risk_level never 'low'.                        *)
C30_NoStrongRecommendation ==
    \A call \in CallsOf("VolumePriceAnalyzer") :
        Returns(call) =>
            /\ \A sig \in SignalsOf(call.result) :
                   /\ RatLe(sig.confidence, <<4, 5>>)
                   /\ sig.source \in DivergenceSources => RatLe(sig.confidence, <<3, 4>>)
            /\ SignalsReturned(call) =>
                   /\ call.result.trading_signals.recommendation.action
                          \notin {"strong_buy", "strong_sell"}
                   /\ call.result.trading_signals.recommendation.risk_level # "low"
            /\ ("current_divergence" \in DOMAIN call.result.divergence_analysis
                /\ ~ IsNone(call.result.divergence_analysis.current_divergence)
                /\ call.result.divergence_analysis.current_divergence.has_recent_divergence)
                   => call.result.divergence_analysis.current_divergence
                          .days_since_divergence >= PivotWindow

(* a divergence signal 7 days after its pivot, and a recommendation made   *)
(* of a signal of strength above 0.8 whose confidence is not above 0.8     *)
C30_Witness ==
    \E call \in CallsOf("VolumePriceAnalyzer") :
        /\ SignalsReturned(call)
        /\ \E sig \in SignalsOf(call.result) :
               sig.source \in DivergenceSources /\ sig.confidence = <<13, 20>>
        /\ ~ IsNone(call.result.trading_signals.current_signal)
        /\ RatLt(<<4, 5>>, call.result.trading_signals.current_signal.strength)
        /\ call.result.trading_signals.recommendation.action \in {"buy", "sell"}

=============================================================================
